---------------------------- MODULE Spec2Model ----------------------------
(***************************************************************************)
(* Maxcro Tracker (src/unnamed/part_000): the macro goal calculator, the   *)
(* profile life cycle and the daily food log, as state machines.           *)
(*                                                                         *)
(* Numbers the calculator computes are exact rationals, kept as mixed      *)
(* numbers i + n/d with 0 <= n < d so that every intermediate stays inside *)
(* TLC's 32-bit integers.  The JavaScript code computes them in IEEE       *)
(* doubles; the two agree after Math.round whenever the exact value is not *)
(* within about 1e-9 of a rounding tie k + 1/2.                            *)
(*                                                                         *)
(* Form values are the strings an <input> holds: a text is a sequence of   *)
(* one-character strings, << >> being the empty string ''.  An absent      *)
(* (undefined) field of an object is a key outside the record's DOMAIN.    *)
(***************************************************************************)
EXTENDS Integers, Sequences, FiniteSets, TLC

VARIABLES
    calcIn,             \* the profileData argument of a calculateMacros call
    calcOut,            \* what the call returned (NoResult before the call)
    screen,             \* App: 'loading', 'onboarding', 'dashboard' or 'error'
    user,               \* App: the signed-in user's uid, "none" for null
    profile,            \* App: the profile state, NoProfile for null
    isDataLoaded,       \* App: the first daily-entries snapshot has arrived
    dailyData,          \* App: the last daily-entries snapshot, date -> entry
    listener,           \* App: the dailyEntries listener: "off", "on" or "failed"
    configured,         \* the build has firebaseConfig.apiKey and GEMINI_API_KEY
    profileDoc,         \* Firestore: the document profile/main
    dailyDocs,          \* Firestore: the collection dailyEntries, date -> entry
    writes,             \* Firestore: the writes dailyEntries has received
    step,               \* OnboardingScreen: the step shown
    onboardingForm,     \* OnboardingScreen: formData
    page,               \* Dashboard: the page shown
    selectedDate,       \* Dashboard: the date shown
    weightPrompt,       \* Dashboard.showWeightPrompt and DailyWeightPrompt's weight
    profileForm,        \* ProfileScreen: formData (NoProfile while unmounted)
    isEditing,          \* ProfileScreen: the details are being edited
    showPhotoAnalyzer,  \* the ProgressPhotoAnalyzer modal is open
    analysisResult,     \* ProgressPhotoAnalyzer: analysisResult, NoAnalysis for null
    now,                \* the wall clock new Date() reads
    weight,             \* HomeScreen: the weight input's value (NoWeight while unmounted)
    mealIdea,           \* HomeScreen.showMealIdea and MealIdeaGenerator's state
    aiFoodLogger,       \* DailyLogScreen.showAiLogger and AiFoodLogger's state
    workoutScreen,      \* WorkoutScreen's state
    weeklySummary,      \* ChartsScreen.showWeeklySummary and WeeklySummaryGenerator's state
    photoAnalyzer,      \* ProgressPhotoAnalyzer: imageFile, isLoading, error
    calcLog,            \* the calculateMacros calls made so far, in order
    dayTypeLog          \* history: the day-type toggles of this page load

calcVars == <<calcIn, calcOut>>
appVars == <<screen, user, profile, isDataLoaded, dailyData, listener, configured>>
storeVars == <<profileDoc, dailyDocs, writes>>
onboardingVars == <<step, onboardingForm>>
dashboardVars == <<page, selectedDate, weightPrompt>>
profileVars == <<profileForm, isEditing, showPhotoAnalyzer, analysisResult, now>>
screenVars == <<weight, mealIdea, aiFoodLogger, workoutScreen, weeklySummary,
                photoAnalyzer>>
vars == <<calcVars, calcLog, dayTypeLog, appVars, storeVars, onboardingVars, dashboardVars,
          profileVars, screenVars>>

---------------------------------------------------------------------------
(* Exact arithmetic on mixed numbers [i, n, d] = i + n/d, 0 <= n < d.      *)

RECURSIVE GCD(_, _)
GCD(a, b) == IF b = 0 THEN a ELSE GCD(b, a % b)

LCM(a, b) == (a \div GCD(a, b)) * b

\* num/den (den > 0) as a reduced mixed number.
Rat(num, den) ==
    LET r == num % den
        g == GCD(den, r)
    IN  [i |-> num \div den, n |-> r \div g, d |-> den \div g]

\* The number NaN, which no computation of the model reaches as an integer.
NaN == -999999999

\* a - b, a + b and a * b on integers either of which may be NaN.
Minus(a, b) == IF a = NaN \/ b = NaN THEN NaN ELSE a - b
Plus(a, b) == IF a = NaN \/ b = NaN THEN NaN ELSE a + b
Times(a, b) == IF a = NaN \/ b = NaN THEN NaN ELSE a * b

FromInt(k) == [i |-> k, n |-> 0, d |-> 1]

\* NaN among the mixed numbers.
NaNQ == FromInt(NaN)

\* x * p / q for integers p >= 0, q > 0.
MulQ(x, p, q) ==
    LET ip == x.i * p
        f  == Rat((ip % q) * x.d + x.n * p, x.d * q)
    IN  IF x = NaNQ THEN NaNQ
        ELSE [i |-> (ip \div q) + f.i, n |-> f.n, d |-> f.d]

AddQ(x, y) ==
    LET l == LCM(x.d, y.d)
        f == Rat(x.n * (l \div x.d) + y.n * (l \div y.d), l)
    IN  IF x = NaNQ \/ y = NaNQ THEN NaNQ
        ELSE [i |-> x.i + y.i + f.i, n |-> f.n, d |-> f.d]

NegQ(x) ==
    IF x = NaNQ THEN NaNQ
    ELSE IF x.n = 0 THEN [i |-> 0 - x.i, n |-> 0, d |-> 1]
    ELSE [i |-> 0 - x.i - 1, n |-> x.d - x.n, d |-> x.d]

SubQ(x, y) == AddQ(x, NegQ(y))

\* Math.round: the integer nearest to x, a tie k + 1/2 going up to k + 1.
MathRound(x) == x.i + (IF 2 * x.n >= x.d THEN 1 ELSE 0)

---------------------------------------------------------------------------
(* Texts and their parsing.                                                *)

Digits == <<"0", "1", "2", "3", "4", "5", "6", "7", "8", "9">>

IsDigit(c) == \E k \in 1..10 : Digits[k] = c

DigitVal(c) == (CHOOSE k \in 1..10 : Digits[k] = c) - 1

\* The length of the longest prefix of s made of digits.
RECURSIVE DigitPrefixLen(_)
DigitPrefixLen(s) ==
    IF s = << >> \/ ~IsDigit(Head(s)) THEN 0 ELSE 1 + DigitPrefixLen(Tail(s))

\* The value of a sequence of digits.
RECURSIVE DigitsValue(_)
DigitsValue(s) ==
    IF s = << >> THEN 0
    ELSE 10 * DigitsValue(SubSeq(s, 1, Len(s) - 1)) + DigitVal(s[Len(s)])

RECURSIVE Pow10(_)
Pow10(k) == IF k = 0 THEN 1 ELSE 10 * Pow10(k - 1)

\* parseInt on an unsigned decimal text: the leading digits, the rest dropped.
ParseInt(s) == DigitsValue(SubSeq(s, 1, DigitPrefixLen(s)))

\* parseFloat on an unsigned decimal text: the leading digits and, after a ".",
\* the fraction digits.
ParseFloat(s) ==
    LET w    == DigitPrefixLen(s)
        rest == SubSeq(s, w + 1, Len(s))
        frac == IF rest # << >> /\ Head(rest) = "."
                THEN SubSeq(rest, 2, 1 + DigitPrefixLen(Tail(rest)))
                ELSE << >>
        f    == Rat(DigitsValue(frac), Pow10(Len(frac)))
    IN  [i |-> ParseInt(s) + f.i, n |-> f.n, d |-> f.d]

\* The decimal text of a natural number (used to build the input sets).
RECURSIVE Numeral(_)
Numeral(k) ==
    IF k < 10 THEN <<Digits[k + 1]>>
    ELSE Append(Numeral(k \div 10), Digits[(k % 10) + 1])

---------------------------------------------------------------------------
(* calculateMacros                                                         *)

GoalKeys == {"protein", "carbs", "fat", "calories"}

\* The object {} .
EmptyObject == [k \in {} |-> 0]

\* !value for a form text: undefined or ''.
FalsyText(p, k) == k \notin DOMAIN p \/ p[k] = << >>

\* !value for a select's string: undefined or ''.
FalsyString(p, k) == k \notin DOMAIN p \/ p[k] = ""

\* A guard that also demands heightInches.
MissingRequired_WithInches(p) ==
    \/ FalsyText(p, "weightLbs")
    \/ FalsyText(p, "heightFeet")
    \/ FalsyText(p, "heightInches")
    \/ FalsyText(p, "age")
    \/ FalsyString(p, "gender")
    \/ FalsyString(p, "activityLevel")

\* if (!weightLbs || !heightFeet || !age || !gender || !activityLevel)
MissingRequired(p) ==
    \/ FalsyText(p, "weightLbs")
    \/ FalsyText(p, "heightFeet")
    \/ FalsyText(p, "age")
    \/ FalsyString(p, "gender")
    \/ FalsyString(p, "activityLevel")

\* activityMultipliers, each as <<numerator, denominator>>.
activityMultipliers ==
    [sedentary |-> <<6, 5>>, lightly_active |-> <<11, 8>>,
     moderately_active |-> <<31, 20>>, very_active |-> <<69, 40>>,
     extra_active |-> <<19, 10>>]

\* parseFloat(weightLbs) * 0.453592
WeightKg(p) == MulQ(ParseFloat(p.weightLbs), 56699, 125000)

\* Absent inches taken as one inch.
HeightInchesOf_DefaultOne(p) ==
    IF FalsyText(p, "heightInches") THEN 1 ELSE ParseInt(p.heightInches)

\* parseInt(heightInches || 0)
HeightInchesOf(p) ==
    IF FalsyText(p, "heightInches") THEN 0 ELSE ParseInt(p.heightInches)

\* A height that keeps the fraction of the inches entered.
HeightCm_FractionalInches(p) ==
    MulQ(AddQ(FromInt(ParseInt(p.heightFeet) * 12),
              IF FalsyText(p, "heightInches") THEN FromInt(0)
              ELSE ParseFloat(p.heightInches)),
         127, 50)

\* (parseInt(heightFeet) * 12 + parseInt(heightInches || 0)) * 2.54
HeightCm(p) ==
    MulQ(FromInt(ParseInt(p.heightFeet) * 12 + HeightInchesOf(p)), 127, 50)

\* The gender constants the other way round.
GenderTerm_Swapped(p) == IF p.gender = "male" THEN 0 - 161 ELSE 5

\* The constant the Mifflin-St Jeor formula adds for the gender.
GenderTerm(p) == IF p.gender = "male" THEN 5 ELSE 0 - 161

\* 10 * weightKg + 6.25 * heightCm - 5 * parseInt(age) + 5 (male) or - 161
Bmr(p) ==
    AddQ(AddQ(MulQ(WeightKg(p), 10, 1), MulQ(HeightCm(p), 25, 4)),
         FromInt(GenderTerm(p) - 5 * ParseInt(p.age)))

\* An unknown activity level taken as sedentary.
Tdee_DefaultMultiplier(p) ==
    IF p.activityLevel \in DOMAIN activityMultipliers
    THEN MulQ(Bmr(p), activityMultipliers[p.activityLevel][1],
              activityMultipliers[p.activityLevel][2])
    ELSE MulQ(Bmr(p), 6, 5)

\* bmr * activityMultipliers[activityLevel]; the lookup of an unknown level is
\* undefined and the product NaN.
Tdee(p) ==
    IF p.activityLevel \in DOMAIN activityMultipliers
    THEN MulQ(Bmr(p), activityMultipliers[p.activityLevel][1],
              activityMultipliers[p.activityLevel][2])
    ELSE NaNQ

\* tdee * 0.20
Deficit(p) == MulQ(Tdee(p), 1, 5)

\* tdee - deficit
TargetCalories(p) == SubQ(Tdee(p), Deficit(p))

\* Math.round(weightKg * 2.2)
Protein(p) == MathRound(MulQ(WeightKg(p), 11, 5))

\* Math.round((targetCalories * 0.25) / 9)
Fat(p) == MathRound(MulQ(MulQ(TargetCalories(p), 1, 4), 1, 9))

\* Math.round((targetCalories - (protein * 4) - (fat * 9)) / 4)
Carbs(p) ==
    MathRound(MulQ(SubQ(TargetCalories(p),
                        FromInt(Plus(Times(Protein(p), 4), Times(Fat(p), 9)))),
                   1, 4))

\* workout: { protein, carbs, fat, calories: Math.round(targetCalories) }
WorkoutGoals(p) ==
    [protein |-> Protein(p), carbs |-> Carbs(p), fat |-> Fat(p),
     calories |-> MathRound(TargetCalories(p))]

\* Rest calories taken from the rounded workout calories, less a tenth cut off.
RestCalories_Truncated(p) == (MathRound(TargetCalories(p)) * 9) \div 10

\* Math.round(targetCalories * 0.9)
RestCalories(p) == MathRound(MulQ(TargetCalories(p), 9, 10))

\* Math.floor in place of Math.round.
RestCarbs_Floor(p) == (Carbs(p) * 4) \div 5

\* Math.round(carbs * 0.8)
RestCarbs(p) == MathRound(MulQ(FromInt(Carbs(p)), 4, 5))

\* rest: { protein, carbs: Math.round(carbs * 0.8), fat,
\*         calories: Math.round(targetCalories * 0.9) }
RestGoals(p) ==
    [protein |-> Protein(p), carbs |-> RestCarbs(p), fat |-> Fat(p),
     calories |-> RestCalories(p)]

\* A calculator with a hidden state: it computes on its first call only.
calculateMacros_FirstCallOnly(p) ==
    IF MissingRequired(p) \/ calcLog # << >>
    THEN [workout |-> EmptyObject, rest |-> EmptyObject]
    ELSE [bmr |-> MathRound(Bmr(p)), tdee |-> MathRound(Tdee(p)),
          deficit |-> MathRound(Deficit(p)),
          workout |-> WorkoutGoals(p), rest |-> RestGoals(p)]

\* calculateMacros(profileData)
calculateMacros(p) ==
    IF MissingRequired(p) THEN [workout |-> EmptyObject, rest |-> EmptyObject]
    ELSE [bmr |-> MathRound(Bmr(p)), tdee |-> MathRound(Tdee(p)),
          deficit |-> MathRound(Deficit(p)),
          workout |-> WorkoutGoals(p), rest |-> RestGoals(p)]

---------------------------------------------------------------------------
(* The profiles calculateMacros is applied to.                             *)

MinWeight == 100
WeightStep == 10
MaxWeightSteps == 12
MinFeet == 4
MaxFeet == 6

WeightTexts ==
    {Numeral(MinWeight + WeightStep * k) : k \in 0..MaxWeightSteps}
    \cup {Numeral(50), <<"1", "8", "0", ".", "5">>}

FeetTexts == {Numeral(f) : f \in MinFeet..MaxFeet}

InchesTexts == {Numeral(0), Numeral(10), <<"5", ".", "5">>}

AgeTexts == {Numeral(18), Numeral(28), Numeral(45), Numeral(70), Numeral(250)}

Genders == {"male", "female"}

ActivityLevels == DOMAIN activityMultipliers

\* Profiles with every field filled in.
CompleteProfiles ==
    [weightLbs : WeightTexts, heightFeet : FeetTexts, heightInches : InchesTexts,
     age : AgeTexts, gender : Genders, activityLevel : ActivityLevels]

\* The spec's example profile (section 8).
ExampleProfile ==
    [weightLbs |-> Numeral(180), heightFeet |-> Numeral(5),
     heightInches |-> Numeral(10), age |-> Numeral(28), gender |-> "male",
     activityLevel |-> "lightly_active"]

ProfileFields == DOMAIN ExampleProfile

\* p with the fields of gone left out (undefined) and those of blank set to ''.
Without(p, gone, blank) ==
    [k \in (DOMAIN p) \ gone |->
        IF k \in blank
        THEN (IF k \in {"gender", "activityLevel"} THEN "" ELSE << >>)
        ELSE p[k]]

\* The example with any fields absent or empty.
IncompleteProfiles ==
    {Without(ExampleProfile, gone, blank) :
        gone \in SUBSET ProfileFields, blank \in SUBSET ProfileFields}

ProfileInputs == CompleteProfiles \cup IncompleteProfiles

NoResult == [pending |-> TRUE]

\* null, where a profile is expected.
NoProfile == [null |-> TRUE]

\* null, where an analysis result is expected.
NoAnalysis == [null |-> TRUE]

\* null, where an error message is expected: nothing is shown.
NoError == ""

\* HomeScreen is not mounted.
NoWeight == [unmounted |-> TRUE]

\* null, where a workout plan is expected.
NoPlan == [null |-> TRUE]

\* null, where a meal idea is expected.
NoIdea == [null |-> TRUE]

\* useState(false) of showMealIdea; useState(true), useState(null), useState(null)
\* of MealIdeaGenerator.
MealIdeaClosed ==
    [show |-> FALSE, isLoading |-> TRUE, error |-> NoError, idea |-> NoIdea]

\* useState(false) of showAiLogger; isLoading and error of AiFoodLogger.
AiFoodLoggerClosed == [show |-> FALSE, isLoading |-> FALSE, error |-> NoError]

\* The useState initial values of WorkoutScreen.
WorkoutScreenStart ==
    [workoutPlan |-> NoPlan, isLoading |-> FALSE, error |-> NoError,
     newSetData |-> EmptyObject,
     substituteModal |-> [open |-> FALSE, exerciseName |-> "", exerciseIndex |-> -1],
     substitutions |-> << >>, isSubstituting |-> FALSE]

\* useState(false) of showWeeklySummary; useState(true), useState(null),
\* useState("") of WeeklySummaryGenerator.
WeeklySummaryClosed ==
    [show |-> FALSE, isLoading |-> TRUE, error |-> NoError, summary |-> ""]

\* imageFile (a file is chosen or not), isLoading and error of
\* ProgressPhotoAnalyzer.
PhotoAnalyzerStart == [imageFile |-> FALSE, isLoading |-> FALSE, error |-> NoError]

\* No day-type toggle has been made since the page was loaded.
NoToggles == [date |-> "", before |-> TRUE, phase |-> "none"]

\* Dashboard: useState(false) of showWeightPrompt, DailyWeightPrompt unmounted.
WeightPromptClosed == [show |-> FALSE, weight |-> << >>]

\* The calendar dates of the model; Today is new Date() cut to its day.
Today == "2024-05-01"
Dates == {Today, "2024-04-30"}

\* useState({ name: '', age: '', gender: 'male', heightFeet: '', heightInches: '',
\*            weightLbs: '', activityLevel: 'lightly_active', bfGoal: '20' })
InitialFormData ==
    [name |-> << >>, age |-> << >>, gender |-> "male", heightFeet |-> << >>,
     heightInches |-> << >>, weightLbs |-> << >>,
     activityLevel |-> "lightly_active", bfGoal |-> Numeral(20)]

\* The state of the application right after the page has loaded, given what
\* Firestore holds.
AppStart ==
    /\ screen = "loading"
    /\ user = "none"
    /\ profile = NoProfile
    /\ isDataLoaded = FALSE
    /\ listener = "off"
    /\ dailyData = EmptyObject
    /\ step = 1
    /\ onboardingForm = InitialFormData
    /\ page = "home"
    /\ selectedDate = Today
    /\ weightPrompt = WeightPromptClosed
    /\ profileForm = NoProfile
    /\ isEditing = FALSE
    /\ showPhotoAnalyzer = FALSE
    /\ analysisResult = NoAnalysis
    /\ weight = NoWeight
    /\ mealIdea = MealIdeaClosed
    /\ aiFoodLogger = AiFoodLoggerClosed
    /\ workoutScreen = WorkoutScreenStart
    /\ weeklySummary = WeeklySummaryClosed
    /\ photoAnalyzer = PhotoAnalyzerStart

\* A new installation: nothing stored yet.
AppInit ==
    /\ AppStart
    /\ configured = TRUE
    /\ profileDoc = NoProfile
    /\ dailyDocs = EmptyObject
    /\ now = 1
    /\ calcLog = << >>
    /\ dayTypeLog = NoToggles
    /\ writes = 0

InitCalc ==
    /\ calcIn \in ProfileInputs
    /\ calcOut = NoResult
    /\ AppInit

\* One call: calculateMacros(calcIn).
Calculate ==
    /\ calcOut = NoResult
    /\ calcOut' = calculateMacros(calcIn)
    /\ calcLog' = Append(calcLog, [profileData |-> calcIn,
                                   result |-> calculateMacros(calcIn)])
    /\ UNCHANGED <<calcIn, dayTypeLog, screenVars, appVars, storeVars, onboardingVars, dashboardVars,
                   profileVars>>

NextCalc == Calculate

SpecCalc == InitCalc /\ [][NextCalc]_vars

---------------------------------------------------------------------------
(* Properties of calculateMacros, checked under SpecCalc.                  *)

RequiredFields == {"weightLbs", "heightFeet", "age", "gender", "activityLevel"}

\* Field k of profile p is absent or holds the empty string.
FieldMissing(p, k) ==
    \/ k \notin DOMAIN p
    \/ p[k] = (IF k \in {"gender", "activityLevel"} THEN "" ELSE << >>)

\* The call has returned.
Returned == calcOut # NoResult

\* The call has returned for a profile with every required field present.
ReturnedComplete ==
    /\ Returned
    /\ \A k \in RequiredFields : ~FieldMissing(calcIn, k)

\* C1: a profile with any required field (weightLbs, heightFeet, age, gender,
\* activityLevel) absent or empty yields empty workout and rest goal sets; a
\* profile with all of them present yields full goal sets, whether or not
\* heightInches is present.
C1_MissingFieldGivesNoGoals ==
    Returned =>
        IF \E k \in RequiredFields : FieldMissing(calcIn, k)
        THEN calcOut.workout = EmptyObject /\ calcOut.rest = EmptyObject
        ELSE DOMAIN calcOut.workout = GoalKeys /\ DOMAIN calcOut.rest = GoalKeys

\* C1 witness: only age is empty and heightInches is absent; the call returned.
C1_Witness ==
    /\ calcIn = Without(ExampleProfile, {"heightInches"}, {"age"})
    /\ Returned

\* C1 witness of the second half: heightInches alone is missing and the goals
\* are computed.
C1_InchesOnlyWitness ==
    /\ calcIn = Without(ExampleProfile, {"heightInches"}, {})
    /\ Returned
    /\ DOMAIN calcOut.workout = GoalKeys

\* C2 as stated: rest.calories is round(0.9 * the rounded workout calories).
C2_RestCaloriesFromRounded ==
    ReturnedComplete =>
        calcOut.rest.calories
            = MathRound(MulQ(FromInt(calcOut.workout.calories), 9, 10))

\* C2 amended: rest.calories is round(0.9 * the unrounded target calories),
\* which is within 1 of round(0.9 * the rounded workout calories).
C2_RestCaloriesFromTarget ==
    ReturnedComplete =>
        /\ calcOut.rest.calories
             = MathRound(MulQ(SubQ(Tdee(calcIn), MulQ(Tdee(calcIn), 1, 5)), 9, 10))
        /\ calcOut.rest.calories
             - MathRound(MulQ(FromInt(calcOut.workout.calories), 9, 10))
           \in {0 - 1, 0, 1}

\* C2 witness: a returned call where the two roundings differ.
C2_Witness ==
    /\ ReturnedComplete
    /\ calcOut.rest.calories
         # MathRound(MulQ(FromInt(calcOut.workout.calories), 9, 10))

\* C3 as stated: for every complete profile the workout and rest calories are
\* integers >= 0.
C3_CaloriesNonNegative ==
    ReturnedComplete =>
        calcOut.workout.calories \in Nat /\ calcOut.rest.calories \in Nat

\* C4: rest.carbs = round(0.8 * workout.carbs), and rest protein and fat equal
\* the workout ones.
C4_RestMacros ==
    ReturnedComplete =>
        /\ calcOut.rest.carbs = MathRound(MulQ(FromInt(calcOut.workout.carbs), 4, 5))
        /\ calcOut.rest.protein = calcOut.workout.protein
        /\ calcOut.rest.fat = calcOut.workout.fat

\* C4 witness: a returned call with a positive carbs goal not a multiple of 5,
\* so that 0.8 * carbs is really rounded.
C4_Witness ==
    /\ ReturnedComplete
    /\ calcOut.workout.carbs > 0
    /\ calcOut.workout.carbs % 5 # 0

\* C5 as stated: the example profile gives BMR 1746, TDEE 2401, deficit 480,
\* calories 1921, protein 180, fat 53, carbs round((1921 - 720 - 477) / 4) = 181.
C5_ExampleAsStated ==
    (Returned /\ calcIn = ExampleProfile) =>
        /\ calcOut.bmr = 1746
        /\ calcOut.tdee = 2401
        /\ calcOut.deficit = 480
        /\ calcOut.workout
             = [protein |-> 180, carbs |-> 181, fat |-> 53, calories |-> 1921]

\* C5 amended: the example profile gives BMR 1793, TDEE 2465, deficit 493,
\* calories 1972, protein 180, fat 55, carbs 189.
C5_ExampleValues ==
    (Returned /\ calcIn = ExampleProfile) =>
        /\ calcOut.bmr = 1793
        /\ calcOut.tdee = 2465
        /\ calcOut.deficit = 493
        /\ calcOut.workout
             = [protein |-> 180, carbs |-> 189, fat |-> 55, calories |-> 1972]

\* C5 witness: calculateMacros has returned for the example profile.
C5_Witness == Returned /\ calcIn = ExampleProfile

\* The spec's steps 1-8 on numeric values w (lbs), f (feet), h (inches),
\* a (years), each a mixed number.
SpecGoalPair(w, f, h, a, gender, level) ==
    LET kg     == MulQ(w, 453592, 1000000)
        cm     == MulQ(AddQ(MulQ(f, 12, 1), h), 254, 100)
        base   == SubQ(AddQ(MulQ(kg, 10, 1), MulQ(cm, 625, 100)), MulQ(a, 5, 1))
        bmr    == IF gender = "male" THEN AddQ(base, FromInt(5))
                  ELSE SubQ(base, FromInt(161))
        factor == CASE level = "sedentary" -> <<1200, 1000>>
                    [] level = "lightly_active" -> <<1375, 1000>>
                    [] level = "moderately_active" -> <<1550, 1000>>
                    [] level = "very_active" -> <<1725, 1000>>
                    [] level = "extra_active" -> <<1900, 1000>>
        tdee   == MulQ(bmr, factor[1], factor[2])
        target == SubQ(tdee, MulQ(tdee, 20, 100))
        prot   == MathRound(MulQ(kg, 22, 10))
        fat    == MathRound(MulQ(MulQ(target, 25, 100), 1, 9))
        carbs  == MathRound(MulQ(SubQ(target, FromInt(prot * 4 + fat * 9)), 1, 4))
    IN  [workout |-> [protein |-> prot, carbs |-> carbs, fat |-> fat,
                      calories |-> MathRound(target)],
         rest |-> [protein |-> prot,
                   carbs |-> MathRound(MulQ(FromInt(carbs), 8, 10)), fat |-> fat,
                   calories |-> MathRound(MulQ(target, 9, 10))]]

\* The goal pair of the returned result.
ReturnedGoals == [workout |-> calcOut.workout, rest |-> calcOut.rest]

\* C6 as stated: for a complete profile the goal pair is the spec's steps 1-8
\* applied to the profile's values as entered.
C6_MatchesStepsOnEnteredValues ==
    (Returned /\ calcIn \in CompleteProfiles) =>
        ReturnedGoals
            = SpecGoalPair(ParseFloat(calcIn.weightLbs), ParseFloat(calcIn.heightFeet),
                           ParseFloat(calcIn.heightInches), ParseFloat(calcIn.age),
                           calcIn.gender, calcIn.activityLevel)

\* C6 amended: the goal pair is the spec's steps 1-8 applied to the weight as
\* entered and to the whole-number parts of feet, inches and age.
C6_MatchesStepsOnParsedValues ==
    (Returned /\ calcIn \in CompleteProfiles) =>
        ReturnedGoals
            = SpecGoalPair(ParseFloat(calcIn.weightLbs),
                           FromInt(ParseInt(calcIn.heightFeet)),
                           FromInt(ParseInt(calcIn.heightInches)),
                           FromInt(ParseInt(calcIn.age)),
                           calcIn.gender, calcIn.activityLevel)

\* C6 witness: a returned call on a complete profile whose inches have a
\* fraction and whose weight has one too.
C6_Witness ==
    /\ Returned
    /\ calcIn \in CompleteProfiles
    /\ calcIn.heightInches = <<"5", ".", "5">>
    /\ calcIn.weightLbs = <<"1", "8", "0", ".", "5">>

---------------------------------------------------------------------------
(* The application: sign-in, onboarding, the profile page and the progress *)
(* photo analyzer.                                                         *)

MaxClock == 2

\* What the user types into the onboarding form.
OnboardingValues ==
    [age |-> {<< >>, Numeral(28)},
     heightFeet |-> {<< >>, Numeral(5)},
     weightLbs |-> {<< >>, Numeral(180)}]

\* What the user types or selects on the profile page.
EditValues ==
    [weightLbs |-> {<< >>, Numeral(200)},
     activityLevel |-> {"lightly_active", "very_active"}]

\* The inputs each onboarding step shows.
StepFields(n) ==
    CASE n = 2 -> {"heightFeet", "heightInches", "weightLbs"}
      [] n = 3 -> {"activityLevel", "bfGoal"}
      [] OTHER -> {"name", "age", "gender"}

\* The inputs the profile page shows while editing.
EditFields == {"name", "age", "weightLbs", "bfGoal", "activityLevel"}

\* What the analysis of a progress photo may return (reasoning left out).
AnalysisResults ==
    {[protein |-> 170, carbs |-> 243, fat |-> 60, calories |-> 2205]}

Pages == {"home", "log", "workout", "charts", "profile"}

\* The goals a profile record stores from a calculateMacros result.
GoalsOf(result) == [workout |-> result.workout, rest |-> result.rest]

\* setDoc(ref, data, { merge: true }) on a map field: the keys of data are
\* overwritten, the others kept; an empty map replaces the field.
MergeMap(old, data) ==
    IF data = EmptyObject THEN EmptyObject
    ELSE [k \in DOMAIN old \cup DOMAIN data |->
            IF k \in DOMAIN data THEN data[k] ELSE old[k]]

\* setDoc(profileRef, data, { merge: true }): top-level fields of data are
\* overwritten, the goal maps are merged key by key.
MergeProfile(old, data) ==
    IF old = NoProfile THEN data
    ELSE [k \in DOMAIN old \cup DOMAIN data |->
            IF k \notin DOMAIN data THEN old[k]
            ELSE IF k = "goals" /\ k \in DOMAIN old
            THEN [g \in DOMAIN old[k] \cup DOMAIN data[k] |->
                    IF g \notin DOMAIN data[k] THEN old[k][g]
                    ELSE IF g \in DOMAIN old[k]
                    THEN MergeMap(old[k][g], data[k][g])
                    ELSE data[k][g]]
            ELSE data[k]]

\* renderContent reaches <Dashboard .../>.
DashboardRendered ==
    /\ configured
    /\ ~(screen = "loading" \/ (user # "none" /\ ~isDataLoaded))
    /\ screen # "onboarding"
    /\ screen = "dashboard" /\ profile # NoProfile

\* renderContent reaches <OnboardingScreen .../>.
OnboardingRendered ==
    /\ configured
    /\ ~(screen = "loading" \/ (user # "none" /\ ~isDataLoaded))
    /\ screen = "onboarding"

\* No modal covers the dashboard.
DashboardFree ==
    /\ DashboardRendered
    /\ ~showPhotoAnalyzer
    /\ ~mealIdea.show
    /\ ~aiFoodLogger.show
    /\ ~workoutScreen.substituteModal.open
    /\ ~weeklySummary.show

\* undefined, where a daily entry is expected.
NoEntry == [undefined |-> TRUE]

\* dailyData[selectedDate] for the snapshot data and the date d.
EntryOf(data, d) == IF d \in DOMAIN data THEN data[d] ELSE NoEntry

\* todayEntry?.weightLbs || profile.weightLbs: the stored number of the day, or
\* the profile's text.
WeightShown(data, d, prof) ==
    IF "weightLbs" \in DOMAIN EntryOf(data, d)
         /\ EntryOf(data, d).weightLbs # FromInt(0)
    THEN [number |-> EntryOf(data, d).weightLbs]
    ELSE [text |-> prof.weightLbs]

\* Dashboard's effect on [dailyData, profile.lastPhotoUploadDate]:
\* !todayData || typeof todayData.weightLbs === 'undefined'
NeedsWeight(data) ==
    \/ EntryOf(data, Today) = NoEntry
    \/ "weightLbs" \notin DOMAIN EntryOf(data, Today)

\* The effect that shows the prompt whenever a weight is stored for the day.
WeightPromptAfter_Inverted(data) ==
    IF ~NeedsWeight(data)
    THEN [show |-> TRUE,
          weight |-> IF weightPrompt.show THEN weightPrompt.weight ELSE << >>]
    ELSE WeightPromptClosed

\* setShowWeightPrompt of the effect, run for the snapshot data: a prompt that
\* stays mounted keeps what was typed into it, one that is hidden unmounts.
WeightPromptAfter(data) ==
    IF NeedsWeight(data)
    THEN [show |-> TRUE,
          weight |-> IF weightPrompt.show THEN weightPrompt.weight ELSE << >>]
    ELSE WeightPromptClosed

\* onAuthStateChanged: no user yet, signInAnonymously succeeds, the callback
\* runs again with the user and reads the profile document.
SignInSucceeds ==
    /\ user = "none" /\ screen = "loading"
    /\ user' = "u1"
    /\ IF profileDoc # NoProfile
       THEN profile' = profileDoc /\ screen' = "dashboard"
       ELSE profile' = profile /\ screen' = "onboarding"
    /\ listener' = "on"
    /\ UNCHANGED <<calcVars, calcLog, dayTypeLog, screenVars, isDataLoaded, dailyData, configured, storeVars, onboardingVars,
                   dashboardVars, profileVars>>

\* A failed sign-in that goes on to onboarding.
SignInFails_ToOnboarding ==
    /\ user = "none" /\ screen = "loading"
    /\ screen' = "onboarding"
    /\ UNCHANGED <<calcVars, calcLog, dayTypeLog, screenVars, user, profile, isDataLoaded, dailyData,
                   listener, configured, storeVars, onboardingVars, dashboardVars,
                   profileVars>>

\* onAuthStateChanged: no user yet and signInAnonymously throws.
SignInFails ==
    /\ user = "none" /\ screen = "loading"
    /\ screen' = "error"
    /\ UNCHANGED <<calcVars, calcLog, dayTypeLog, screenVars, user, profile, isDataLoaded, dailyData, listener, configured, storeVars,
                   onboardingVars, dashboardVars, profileVars>>

\* onAuthStateChanged: signInAnonymously succeeds, the callback runs again with
\* the user and sets it, and getDoc of the profile rejects: the callback ends
\* there, with the listener of the second effect already subscribed.
ProfileReadFails ==
    /\ user = "none" /\ screen = "loading"
    /\ user' = "u1"
    /\ listener' = "on"
    /\ UNCHANGED <<calcVars, calcLog, dayTypeLog, screenVars, screen, profile, isDataLoaded, dailyData,
                   configured, storeVars, onboardingVars, dashboardVars, profileVars>>

\* The dailyEntries listener delivers the collection as it is stored.
DailyEntriesSnapshot ==
    /\ user # "none" /\ listener = "on"
    /\ dailyData' = dailyDocs
    /\ isDataLoaded' = TRUE
    /\ weight' =
         IF ~(screen = "dashboard" /\ profile # NoProfile /\ page = "home")
         THEN NoWeight
         ELSE IF /\ weight # NoWeight
                 /\ selectedDate \notin DOMAIN dailyData
                 /\ selectedDate \notin DOMAIN dailyDocs
         THEN weight
         ELSE WeightShown(dailyDocs, selectedDate, profile)
    /\ weightPrompt' =
         IF configured /\ screen = "dashboard" /\ profile # NoProfile
         THEN WeightPromptAfter(dailyDocs)
         ELSE WeightPromptClosed
    /\ dayTypeLog' = IF dayTypeLog.phase = "toggled"
                     THEN [dayTypeLog EXCEPT !.phase = "delivered"]
                     ELSE dayTypeLog
    /\ UNCHANGED <<calcVars, calcLog, screen, user, profile, listener, configured,
                   storeVars, onboardingVars, page, selectedDate, profileVars, mealIdea,
                   aiFoodLogger, workoutScreen, weeklySummary, photoAnalyzer>>

\* The dailyEntries listener fails (permission denied, network): the error
\* callback logs to the console and Firestore ends the listener.
DailyEntriesFails ==
    /\ user # "none" /\ listener = "on"
    /\ listener' = "failed"
    /\ UNCHANGED <<calcVars, calcLog, dayTypeLog, screenVars, screen, user, profile, isDataLoaded,
                   dailyData, configured, storeVars, onboardingVars, dashboardVars,
                   profileVars>>

\* The page is loaded again: component state starts over, Firestore stays.
Reload ==
    /\ screen # "loading"
    /\ screen' = "loading"
    /\ user' = "none"
    /\ profile' = NoProfile
    /\ isDataLoaded' = FALSE
    /\ listener' = "off"
    /\ dailyData' = EmptyObject
    /\ step' = 1
    /\ onboardingForm' = InitialFormData
    /\ page' = "home"
    /\ selectedDate' = Today
    /\ weightPrompt' = WeightPromptClosed
    /\ profileForm' = NoProfile
    /\ isEditing' = FALSE
    /\ showPhotoAnalyzer' = FALSE
    /\ analysisResult' = NoAnalysis
    /\ weight' = NoWeight
    /\ mealIdea' = MealIdeaClosed
    /\ aiFoodLogger' = AiFoodLoggerClosed
    /\ workoutScreen' = WorkoutScreenStart
    /\ weeklySummary' = WeeklySummaryClosed
    /\ photoAnalyzer' = PhotoAnalyzerStart
    /\ dayTypeLog' = NoToggles
    /\ UNCHANGED <<calcVars, calcLog, storeVars, now, configured>>

\* OnboardingScreen.handleChange
OnboardingChange(field, value) ==
    /\ OnboardingRendered
    /\ field \in StepFields(step)
    /\ onboardingForm' = [onboardingForm EXCEPT ![field] = value]
    /\ UNCHANGED <<calcVars, calcLog, dayTypeLog, screenVars, appVars, storeVars, step, dashboardVars, profileVars>>

\* OnboardingScreen.nextStep (steps 1 and 2 show the Next button)
nextStep ==
    /\ OnboardingRendered
    /\ step < 3
    /\ step' = step + 1
    /\ UNCHANGED <<calcVars, calcLog, dayTypeLog, screenVars, appVars, storeVars, onboardingForm, dashboardVars,
                   profileVars>>

\* OnboardingScreen.prevStep (steps 2 and 3 show the Back button)
prevStep ==
    /\ OnboardingRendered
    /\ step > 1
    /\ step' = step - 1
    /\ UNCHANGED <<calcVars, calcLog, dayTypeLog, screenVars, appVars, storeVars, onboardingForm, dashboardVars,
                   profileVars>>

\* A final profile whose goals are those of the form as it was before any input.
FinalProfile_InitialGoals(formData) ==
    [k \in DOMAIN formData \cup {"goals", "lastPhotoUploadDate"} |->
        IF k = "goals" THEN GoalsOf(calculateMacros(InitialFormData))
        ELSE IF k = "lastPhotoUploadDate" THEN << >>
        ELSE formData[k]]

\* The profile OnboardingScreen.handleSubmit builds from formData.
FinalProfile(formData) ==
    [k \in DOMAIN formData \cup {"goals", "lastPhotoUploadDate"} |->
        IF k = "goals" THEN GoalsOf(calculateMacros(formData))
        ELSE IF k = "lastPhotoUploadDate" THEN << >>
        ELSE formData[k]]

\* OnboardingScreen.handleSubmit, then App.handleOnboardingComplete; the
\* screen unmounts and its state is dropped.
OnboardingSubmit ==
    /\ OnboardingRendered
    /\ step = 3
    /\ profileDoc' = FinalProfile(onboardingForm)
    /\ profile' = FinalProfile(onboardingForm)
    /\ screen' = "dashboard"
    /\ step' = 1
    /\ onboardingForm' = InitialFormData
    /\ weight' =
         IF isDataLoaded /\ page = "home"
         THEN WeightShown(dailyData, selectedDate, FinalProfile(onboardingForm))
         ELSE NoWeight
    /\ weightPrompt' = WeightPromptAfter(dailyData)
    /\ UNCHANGED <<calcVars, calcLog, dayTypeLog, user, isDataLoaded, dailyData, listener, configured, dailyDocs, writes,
                   page, selectedDate, profileVars, mealIdea, aiFoodLogger,
                   workoutScreen, weeklySummary, photoAnalyzer>>

\* NavBar: setPage; the page left unmounts and loses its state, the page shown
\* mounts: ProfileScreen with formData = profile, HomeScreen with the weight of
\* the day.
SetPage(p) ==
    /\ DashboardFree
    /\ p # page
    /\ page' = p
    /\ profileForm' = IF p = "profile" THEN profile ELSE NoProfile
    /\ isEditing' = FALSE
    /\ weight' = IF p = "home" THEN WeightShown(dailyData, selectedDate, profile)
                 ELSE NoWeight
    /\ workoutScreen' = WorkoutScreenStart
    /\ UNCHANGED <<calcVars, calcLog, dayTypeLog, appVars, storeVars, onboardingVars,
                   selectedDate, weightPrompt, showPhotoAnalyzer, analysisResult, now, mealIdea,
                   aiFoodLogger, weeklySummary, photoAnalyzer>>

\* ProfileScreen: the Edit / Cancel button.
ToggleEditing ==
    /\ DashboardFree /\ page = "profile"
    /\ isEditing' = ~isEditing
    /\ UNCHANGED <<calcVars, calcLog, dayTypeLog, screenVars, appVars, storeVars, onboardingVars, dashboardVars,
                   profileForm, showPhotoAnalyzer, analysisResult, now>>

\* ProfileScreen.handleChange
ProfileChange(field, value) ==
    /\ DashboardFree /\ page = "profile" /\ isEditing
    /\ field \in EditFields
    /\ profileForm' =
         [k \in DOMAIN profileForm \cup {field} |->
            IF k = field THEN value ELSE profileForm[k]]
    /\ UNCHANGED <<calcVars, calcLog, dayTypeLog, screenVars, appVars, storeVars, onboardingVars, dashboardVars,
                   isEditing, showPhotoAnalyzer, analysisResult, now>>

\* A save that stores the form as it is, goals not recalculated.
UpdatedProfile_KeepGoals(formData) == formData

\* The profile ProfileScreen.handleSave builds from formData.
UpdatedProfile(formData) ==
    [k \in DOMAIN formData \cup {"goals"} |->
        IF k = "goals" THEN GoalsOf(calculateMacros(formData)) ELSE formData[k]]

\* ProfileScreen.handleSave
ProfileSave ==
    /\ DashboardFree /\ page = "profile" /\ isEditing
    /\ profileDoc' = MergeProfile(profileDoc, UpdatedProfile(profileForm))
    /\ profile' = UpdatedProfile(profileForm)
    /\ isEditing' = FALSE
    /\ weightPrompt' =
         IF UpdatedProfile(profileForm).lastPhotoUploadDate = profile.lastPhotoUploadDate
         THEN weightPrompt
         ELSE WeightPromptAfter(dailyData)
    /\ UNCHANGED <<calcVars, calcLog, dayTypeLog, screenVars, screen, user, isDataLoaded, dailyData, listener, configured, dailyDocs, writes,
                   onboardingVars, page, selectedDate, profileForm, showPhotoAnalyzer,
                   analysisResult, now>>

\* The messages a failed request leaves in err.message.
ErrorMessages == {"Failed to fetch", "API error"}

\* The weekly prompt's or the profile page's Upload Photo button.
OpenPhotoAnalyzer ==
    /\ DashboardFree
    /\ showPhotoAnalyzer' = TRUE
    /\ analysisResult' = NoAnalysis
    /\ UNCHANGED <<calcVars, calcLog, dayTypeLog, screenVars, appVars, storeVars, onboardingVars, dashboardVars,
                   profileForm, isEditing, now>>

\* ProgressPhotoAnalyzer: the X button.
ClosePhotoAnalyzer ==
    /\ DashboardRendered /\ showPhotoAnalyzer
    /\ showPhotoAnalyzer' = FALSE
    /\ analysisResult' = NoAnalysis
    /\ photoAnalyzer' = PhotoAnalyzerStart
    /\ UNCHANGED <<calcVars, calcLog, dayTypeLog, appVars, storeVars, onboardingVars, dashboardVars,
                   profileForm, isEditing, now, weight, mealIdea, aiFoodLogger,
                   workoutScreen, weeklySummary>>

\* ProgressPhotoAnalyzer.handleImageChange: a file is chosen.
handleImageChange ==
    /\ DashboardRendered /\ showPhotoAnalyzer
    /\ analysisResult = NoAnalysis
    /\ ~photoAnalyzer.imageFile
    /\ photoAnalyzer' = [photoAnalyzer EXCEPT !.imageFile = TRUE]
    /\ UNCHANGED <<calcVars, calcLog, dayTypeLog, appVars, storeVars, onboardingVars, dashboardVars,
                   profileVars, weight, mealIdea, aiFoodLogger, workoutScreen,
                   weeklySummary>>

\* ProgressPhotoAnalyzer.handleAnalysis up to the fetch; the button is disabled
\* while loading and without a file.
handleAnalysis ==
    /\ DashboardRendered /\ showPhotoAnalyzer
    /\ analysisResult = NoAnalysis
    /\ ~photoAnalyzer.isLoading /\ photoAnalyzer.imageFile
    /\ photoAnalyzer' = [photoAnalyzer EXCEPT !.isLoading = TRUE, !.error = NoError]
    /\ UNCHANGED <<calcVars, calcLog, dayTypeLog, appVars, storeVars, onboardingVars, dashboardVars,
                   profileVars, weight, mealIdea, aiFoodLogger, workoutScreen,
                   weeklySummary>>

\* ProgressPhotoAnalyzer.handleAnalysis: the request fails (catch, finally).
AnalysisFails(message) ==
    /\ DashboardRendered /\ showPhotoAnalyzer
    /\ photoAnalyzer.isLoading
    /\ photoAnalyzer' = [photoAnalyzer EXCEPT !.isLoading = FALSE, !.error = message]
    /\ UNCHANGED <<calcVars, calcLog, dayTypeLog, appVars, storeVars, onboardingVars, dashboardVars,
                   profileVars, weight, mealIdea, aiFoodLogger, workoutScreen,
                   weeklySummary>>

\* ProgressPhotoAnalyzer.handleAnalysis, the request answered with result r.
AnalysisSucceeds(r) ==
    /\ DashboardRendered /\ showPhotoAnalyzer
    /\ analysisResult = NoAnalysis
    /\ photoAnalyzer.isLoading
    /\ analysisResult' = r
    /\ photoAnalyzer' = [photoAnalyzer EXCEPT !.isLoading = FALSE]
    /\ UNCHANGED <<calcVars, calcLog, dayTypeLog, appVars, storeVars, onboardingVars, dashboardVars,
                   profileForm, isEditing, showPhotoAnalyzer, now, weight, mealIdea,
                   aiFoodLogger, workoutScreen, weeklySummary>>

\* Rest goals that repeat the workout goals.
AcceptedGoals_RestAsWorkout(r) ==
    [workout |-> [calories |-> r.calories, protein |-> r.protein,
                  carbs |-> r.carbs, fat |-> r.fat],
     rest |-> [calories |-> r.calories, protein |-> r.protein,
               carbs |-> r.carbs, fat |-> r.fat]]

\* newWorkoutGoals and newRestGoals of handleAcceptChanges.
AcceptedGoals(r) ==
    [workout |-> [calories |-> r.calories, protein |-> r.protein,
                  carbs |-> r.carbs, fat |-> r.fat],
     rest |-> [calories |-> MathRound(MulQ(FromInt(r.calories), 9, 10)),
               protein |-> r.protein,
               carbs |-> MathRound(MulQ(FromInt(r.carbs), 4, 5)),
               fat |-> r.fat]]

\* updatedProfile of handleAcceptChanges.
AcceptedProfile(prof, r, time) ==
    [k \in DOMAIN prof \cup {"goals", "lastPhotoUploadDate"} |->
        IF k = "goals" THEN AcceptedGoals(r)
        ELSE IF k = "lastPhotoUploadDate" THEN <<time>>
        ELSE prof[k]]

\* ProgressPhotoAnalyzer.handleAcceptChanges; new Date() reads the clock, which
\* has moved on by the next time it is read.
AcceptChanges ==
    /\ DashboardRendered /\ showPhotoAnalyzer
    /\ analysisResult # NoAnalysis
    /\ now <= MaxClock
    /\ profileDoc' = MergeProfile(profileDoc, AcceptedProfile(profile, analysisResult, now))
    /\ profile' = AcceptedProfile(profile, analysisResult, now)
    /\ showPhotoAnalyzer' = FALSE
    /\ analysisResult' = NoAnalysis
    /\ photoAnalyzer' = PhotoAnalyzerStart
    /\ now' = now + 1
    /\ weightPrompt' = WeightPromptAfter(dailyData)
    /\ UNCHANGED <<calcVars, calcLog, dayTypeLog, screen, user, isDataLoaded, dailyData, listener, configured, dailyDocs, writes,
                   onboardingVars, page, selectedDate, profileForm, isEditing, weight,
                   mealIdea, aiFoodLogger, workoutScreen, weeklySummary>>

InitProfile ==
    /\ calcIn = ExampleProfile
    /\ calcOut = NoResult
    /\ AppInit

NextProfile ==
    \/ SignInSucceeds
    \/ SignInFails
    \/ DailyEntriesSnapshot
    \/ Reload
    \/ \E field \in DOMAIN OnboardingValues :
         \E value \in OnboardingValues[field] : OnboardingChange(field, value)
    \/ nextStep
    \/ prevStep
    \/ OnboardingSubmit
    \/ \E p \in Pages : SetPage(p)
    \/ ToggleEditing
    \/ \E field \in DOMAIN EditValues :
         \E value \in EditValues[field] : ProfileChange(field, value)
    \/ ProfileSave
    \/ OpenPhotoAnalyzer
    \/ ClosePhotoAnalyzer
    \/ handleImageChange
    \/ handleAnalysis
    \/ \E r \in AnalysisResults : AnalysisSucceeds(r)
    \/ AcceptChanges

SpecProfile == InitProfile /\ [][NextProfile]_vars

---------------------------------------------------------------------------
(* Properties of the profile life cycle, checked under SpecProfile.        *)

\* A stored profile record p carries goals equal to calculateMacros of its
\* own fields.
GoalsCalculated(p) == p.goals = GoalsOf(calculateMacros(p))

\* C7 as stated: in every reachable state the goals stored on the profile (in
\* the app's state and in Firestore) are calculateMacros of that profile's fields.
C7_GoalsAlwaysCalculated ==
    /\ profile # NoProfile => GoalsCalculated(profile)
    /\ profileDoc # NoProfile => GoalsCalculated(profileDoc)

\* Profile record p carries either the calculated goals or, with an upload date
\* recorded, the goals of an accepted photo analysis.
GoalsCalculatedOrAccepted(p) ==
    \/ GoalsCalculated(p)
    \/ /\ p.lastPhotoUploadDate # << >>
       /\ \E r \in AnalysisResults : p.goals = AcceptedGoals(r)

\* C7 amended: the goals stored on the profile are calculateMacros of its fields
\* after onboarding submit and after every edit-and-save; accepting a photo
\* analysis replaces them by the analysis's goals until the next save.  So in
\* every reachable state they are the one or the other, and the calculated ones
\* whenever no upload date is recorded.
C7_GoalsCalculatedOrAccepted ==
    /\ profile # NoProfile => GoalsCalculatedOrAccepted(profile)
    /\ profileDoc # NoProfile => GoalsCalculatedOrAccepted(profileDoc)

\* C7 witness: the weight was edited and saved, and the stored goals are the
\* ones calculated for the new weight.
C7_Witness ==
    /\ profile # NoProfile
    /\ profile = profileDoc
    /\ profile.weightLbs = Numeral(200)
    /\ profile.goals.workout # EmptyObject
    /\ GoalsCalculated(profile)

\* C8 as stated: the dashboard is never rendered while the profile's goal sets
\* are empty.
C8_DashboardHasGoals ==
    DashboardRendered =>
        /\ DOMAIN profile.goals.workout = GoalKeys
        /\ DOMAIN profile.goals.rest = GoalKeys

---------------------------------------------------------------------------
(* The daily food log.                                                     *)

MaxFoods == 2

\* The daily-entry writes followed in one run.
MaxWrites == 3

\* The food items the analysis of a meal may return.
Foods ==
    {[name |-> "oatmeal", protein |-> 10, carbs |-> 50, fat |-> 5, calories |-> 285],
     [name |-> "chicken", protein |-> 40, carbs |-> 0, fat |-> 8, calories |-> 232]}

\* A complete onboarding form and the profile its submit stores.
CompleteFormData ==
    [name |-> <<"A">>, age |-> Numeral(28), gender |-> "male",
     heightFeet |-> Numeral(5), heightInches |-> Numeral(10),
     weightLbs |-> Numeral(180), activityLevel |-> "lightly_active",
     bfGoal |-> Numeral(20)]

\* todayEntry?.foods || [] for the entry of date d in docs.
FoodsOf(docs, d) ==
    IF d \in DOMAIN docs /\ "foods" \in DOMAIN docs[d] THEN docs[d].foods
    ELSE << >>

\* setDoc(entryRef, data) without merge: the document becomes data.
MergeEntry_Overwrite(docs, d, data) ==
    [e \in DOMAIN docs \cup {d} |-> IF e = d THEN data ELSE docs[e]]

\* setDoc(entryRef, data, { merge: true }) on the entry of date d: the fields
\* of data are overwritten (the map workoutLog key by key), the others kept;
\* the document is created if absent.
MergeEntry(docs, d, data) ==
    [e \in DOMAIN docs \cup {d} |->
        IF e # d THEN docs[e]
        ELSE IF d \notin DOMAIN docs THEN data
        ELSE [k \in DOMAIN docs[d] \cup DOMAIN data |->
                IF k \notin DOMAIN data THEN docs[d][k]
                ELSE IF k = "workoutLog" /\ k \in DOMAIN docs[d]
                THEN MergeMap(docs[d][k], data[k])
                ELSE data[k]]]

\* DailyLogScreen: the Add Food with AI button.
OpenAiLogger ==
    /\ DashboardFree /\ page = "log"
    /\ aiFoodLogger' = [AiFoodLoggerClosed EXCEPT !.show = TRUE]
    /\ UNCHANGED <<calcVars, calcLog, dayTypeLog, appVars, storeVars, onboardingVars,
                   dashboardVars, profileVars, weight, mealIdea, workoutScreen,
                   weeklySummary, photoAnalyzer>>

\* AiFoodLogger: the X button.
CloseAiLogger ==
    /\ DashboardRendered /\ aiFoodLogger.show
    /\ aiFoodLogger' = AiFoodLoggerClosed
    /\ UNCHANGED <<calcVars, calcLog, dayTypeLog, appVars, storeVars, onboardingVars,
                   dashboardVars, profileVars, weight, mealIdea, workoutScreen,
                   weeklySummary, photoAnalyzer>>

\* AiFoodLogger.callGeminiApi up to the fetch; the button is disabled while
\* loading and without input.
callGeminiApi ==
    /\ DashboardRendered /\ aiFoodLogger.show
    /\ ~aiFoodLogger.isLoading
    /\ aiFoodLogger' = [aiFoodLogger EXCEPT !.isLoading = TRUE, !.error = NoError]
    /\ UNCHANGED <<calcVars, calcLog, dayTypeLog, appVars, storeVars, onboardingVars,
                   dashboardVars, profileVars, weight, mealIdea, workoutScreen,
                   weeklySummary, photoAnalyzer>>

\* AiFoodLogger.callGeminiApi: the request fails (catch, finally).
FoodAnalysisFails(message) ==
    /\ DashboardRendered /\ aiFoodLogger.show
    /\ aiFoodLogger.isLoading
    /\ aiFoodLogger' = [aiFoodLogger EXCEPT !.isLoading = FALSE, !.error = message]
    /\ UNCHANGED <<calcVars, calcLog, dayTypeLog, appVars, storeVars, onboardingVars,
                   dashboardVars, profileVars, weight, mealIdea, workoutScreen,
                   weeklySummary, photoAnalyzer>>

\* Dashboard.handleDateChange, from the date input of HomeScreen or of
\* WorkoutScreen; HomeScreen's effect on todayEntry sets the weight shown.
handleDateChange(d) ==
    /\ DashboardFree /\ page \in {"home", "workout"}
    /\ d # selectedDate
    /\ selectedDate' = d
    /\ weight' =
         IF page # "home" THEN NoWeight
         ELSE IF selectedDate \notin DOMAIN dailyData /\ d \notin DOMAIN dailyData
         THEN weight
         ELSE WeightShown(dailyData, d, profile)
    /\ UNCHANGED <<calcVars, calcLog, dayTypeLog, appVars, storeVars, onboardingVars, page,
                   weightPrompt, profileVars, mealIdea, aiFoodLogger, workoutScreen,
                   weeklySummary, photoAnalyzer>>

\* DailyLogScreen.addFood, called by AiFoodLogger.callGeminiApi with the food
\* the request returned; the logger closes.
addFood(food) ==
    /\ DashboardRendered /\ aiFoodLogger.show
    /\ aiFoodLogger.isLoading
    /\ Len(FoodsOf(dailyData, selectedDate)) < MaxFoods
    /\ writes < MaxWrites
    /\ writes' = writes + 1
    /\ dailyDocs' =
         MergeEntry(dailyDocs, selectedDate,
                    [foods |-> Append(FoodsOf(dailyData, selectedDate), food),
                     date |-> selectedDate])
    /\ aiFoodLogger' = AiFoodLoggerClosed
    /\ UNCHANGED <<calcVars, calcLog, dayTypeLog, weight, mealIdea, workoutScreen,
                   weeklySummary, photoAnalyzer, appVars, profileDoc, onboardingVars, dashboardVars,
                   profileVars>>

\* currentFoods.filter((_, index) => index !== indexToDelete), i counting from 1.
RemoveAt(foods, i) ==
    [k \in 1..(Len(foods) - (IF i \in 1..Len(foods) THEN 1 ELSE 0)) |->
        IF k < i THEN foods[k] ELSE foods[k + 1]]

\* DailyLogScreen.deleteFood, from the X button of the i-th food shown.
deleteFood(i) ==
    /\ DashboardFree /\ page = "log"
    /\ i \in 1..Len(FoodsOf(dailyData, selectedDate))
    /\ writes < MaxWrites
    /\ writes' = writes + 1
    /\ dailyDocs' =
         MergeEntry(dailyDocs, selectedDate,
                    [foods |-> RemoveAt(FoodsOf(dailyData, selectedDate), i)])
    /\ UNCHANGED <<calcVars, calcLog, dayTypeLog, screenVars, appVars, profileDoc, onboardingVars, dashboardVars,
                   profileVars>>

\* A returning user: the profile is stored, nothing is logged yet.
InitDaily ==
    /\ calcIn = ExampleProfile
    /\ calcOut = NoResult
    /\ AppStart
    /\ configured = TRUE
    /\ profileDoc = FinalProfile(CompleteFormData)
    /\ dailyDocs = EmptyObject
    /\ now = 1
    /\ calcLog = << >>
    /\ dayTypeLog = NoToggles
    /\ writes = 0

NextDaily ==
    \/ SignInSucceeds
    \/ DailyEntriesSnapshot
    \/ Reload
    \/ \E p \in Pages : SetPage(p)
    \/ \E d \in Dates : handleDateChange(d)
    \/ OpenAiLogger
    \/ CloseAiLogger
    \/ callGeminiApi
    \/ \E message \in ErrorMessages : FoodAnalysisFails(message)
    \/ \E food \in Foods : addFood(food)
    \/ \E i \in 1..MaxFoods : deleteFood(i)

SpecDaily == InitDaily /\ [][NextDaily]_vars

---------------------------------------------------------------------------
(* Properties of the daily food log, checked under SpecDaily.              *)

\* C9 as stated: every addFood write stores the previously stored food
\* sequence of the selected date with the new item added at the end.
C9_AddFoodAppends ==
    [][\A food \in Foods :
          addFood(food) =>
              FoodsOf(dailyDocs', selectedDate)
                  = Append(FoodsOf(dailyDocs, selectedDate), food)]_vars

\* C10 as stated: deleteFood(i), when the stored sequence has an i-th item,
\* stores the prior sequence with exactly that item removed.
C10_DeleteFoodRemovesOne ==
    [][\A i \in 1..MaxFoods :
          (deleteFood(i) /\ i <= Len(FoodsOf(dailyDocs, selectedDate))) =>
              FoodsOf(dailyDocs', selectedDate)
                  = RemoveAt(FoodsOf(dailyDocs, selectedDate), i)]_vars

---------------------------------------------------------------------------
(* The daily entry: weight, day type, workout plan and workout sets.       *)

MaxSets == 2

\* What the user types into the weight input of the home screen.
WeightInputs == {<< >>, Numeral(0), Numeral(150)}

\* What the user types into the Reps and Lbs inputs of an exercise.
SetInputs == [reps |-> {Numeral(8)}, weight |-> {<<"9", "5", ".", "5">>}]

\* The exercise names of the plans the AI may return (title, summary, days,
\* sets and reps of the plan left out).
Plans == {[exercises |-> <<"squat", "bench">>]}

\* The alternatives the AI may return for an exercise.
Substitutions == {<<"lunge">>, << >>}

\* The names shown by workoutPlan.days.map(... day.exercises.map(...)).
PlanExercises(plan) ==
    IF plan = NoPlan THEN {} ELSE {plan.exercises[k] : k \in DOMAIN plan.exercises}

\* Number(text) for a decimal text with an optional leading "-".
NumberOf(text) ==
    IF text # << >> /\ Head(text) = "-" THEN NegQ(ParseFloat(Tail(text)))
    ELSE ParseFloat(text)

\* A check that lets every non-empty input through.
IsPositiveText_NonEmpty(text) == text # << >>

\* newWeight && newWeight > 0
IsPositiveText(text) ==
    /\ text # << >>
    /\ NumberOf(text).i > 0 \/ (NumberOf(text).i = 0 /\ NumberOf(text).n > 0)

\* Dashboard: todayEntry
todayEntry == EntryOf(dailyData, selectedDate)

\* A day without the field taken as a rest day.
IsWorkoutDayOf_DefaultRest(entry) ==
    IF "isWorkoutDay" \in DOMAIN entry THEN entry.isWorkoutDay ELSE FALSE

\* todayEntry?.isWorkoutDay ?? true, for a daily entry or NoEntry.
IsWorkoutDayOf(entry) ==
    IF "isWorkoutDay" \in DOMAIN entry THEN entry.isWorkoutDay ELSE TRUE

\* Every day taken as a workout day, whatever its entry holds.
isWorkoutDay_AlwaysWorkout == TRUE

\* Dashboard: isWorkoutDay
isWorkoutDay == IsWorkoutDayOf(todayEntry)

\* WorkoutScreen: workoutLog = todayEntry?.workoutLog || {}
workoutLog ==
    IF "workoutLog" \in DOMAIN todayEntry THEN todayEntry.workoutLog
    ELSE EmptyObject

\* log[exerciseName] || []
SetsOf(log, exerciseName) ==
    IF exerciseName \in DOMAIN log THEN log[exerciseName] ELSE << >>

\* HomeScreen.handleWeightChange
handleWeightChange(newWeight) ==
    /\ DashboardFree /\ page = "home"
    /\ weight # [text |-> newWeight]
    /\ weight' = [text |-> newWeight]
    /\ writes < MaxWrites
    /\ IF IsPositiveText(newWeight)
       THEN /\ dailyDocs' = MergeEntry(dailyDocs, selectedDate,
                                       [weightLbs |-> ParseFloat(newWeight)])
            /\ writes' = writes + 1
       ELSE UNCHANGED <<dailyDocs, writes>>
    /\ UNCHANGED <<calcVars, calcLog, dayTypeLog, appVars, profileDoc, onboardingVars,
                   dashboardVars, profileVars, mealIdea, aiFoodLogger,
                   workoutScreen, weeklySummary, photoAnalyzer>>

\* The history after a toggle on date d that found the day type resolved to
\* b: the second toggle of a pair when the snapshot has been delivered since a
\* toggle on the same date, the first toggle of a pair otherwise.
Toggled(log, d, b) ==
    IF log.phase = "delivered" /\ log.date = d
    THEN [log EXCEPT !.phase = "toggled twice"]
    ELSE [date |-> d, before |-> b, phase |-> "toggled"]

\* A toggle that stores the day type on the profile document.
handleDayTypeToggle_OnProfile ==
    /\ DashboardFree /\ page = "home"
    /\ writes < MaxWrites
    /\ writes' = writes + 1
    /\ profileDoc' = MergeProfile(profileDoc, [isWorkoutDay |-> ~isWorkoutDay])
    /\ dayTypeLog' = Toggled(dayTypeLog, selectedDate, isWorkoutDay)
    /\ UNCHANGED <<calcVars, calcLog, appVars, dailyDocs, onboardingVars,
                   dashboardVars, profileVars, screenVars>>

\* HomeScreen.handleDayTypeToggle
handleDayTypeToggle ==
    /\ DashboardFree /\ page = "home"
    /\ writes < MaxWrites
    /\ writes' = writes + 1
    /\ dailyDocs' =
         MergeEntry(dailyDocs, selectedDate, [isWorkoutDay |-> ~isWorkoutDay])
    /\ dayTypeLog' = Toggled(dayTypeLog, selectedDate, isWorkoutDay)
    /\ UNCHANGED <<calcVars, calcLog, appVars, profileDoc, onboardingVars,
                   dashboardVars, profileVars, screenVars>>

\* WorkoutScreen.generatePlan up to the fetch (Generate My Plan, Regenerate
\* Plan; neither button is shown while loading).
generatePlan ==
    /\ DashboardFree /\ page = "workout"
    /\ ~workoutScreen.isLoading
    /\ workoutScreen' = [workoutScreen EXCEPT !.isLoading = TRUE,
                                              !.error = NoError,
                                              !.workoutPlan = NoPlan]
    /\ UNCHANGED <<calcVars, calcLog, dayTypeLog, appVars, storeVars, onboardingVars,
                   dashboardVars, profileVars, weight, mealIdea, aiFoodLogger,
                   weeklySummary, photoAnalyzer>>

\* WorkoutScreen.generatePlan: the request returns the plan.
GeneratePlanSucceeds(plan) ==
    /\ DashboardRendered /\ page = "workout"
    /\ workoutScreen.isLoading
    /\ workoutScreen' = [workoutScreen EXCEPT !.isLoading = FALSE,
                                              !.workoutPlan = plan]
    /\ UNCHANGED <<calcVars, calcLog, dayTypeLog, appVars, storeVars, onboardingVars,
                   dashboardVars, profileVars, weight, mealIdea, aiFoodLogger,
                   weeklySummary, photoAnalyzer>>

\* A failed request that shows the error and leaves the spinner on.
GeneratePlanFails_KeepsLoading(message) ==
    /\ DashboardRendered /\ page = "workout"
    /\ workoutScreen.isLoading
    /\ workoutScreen' = [workoutScreen EXCEPT !.error = message]
    /\ UNCHANGED <<calcVars, calcLog, dayTypeLog, appVars, storeVars, onboardingVars,
                   dashboardVars, profileVars, weight, mealIdea, aiFoodLogger,
                   weeklySummary, photoAnalyzer>>

\* WorkoutScreen.generatePlan: the request fails (catch, finally).
GeneratePlanFails(message) ==
    /\ DashboardRendered /\ page = "workout"
    /\ workoutScreen.isLoading
    /\ workoutScreen' = [workoutScreen EXCEPT !.isLoading = FALSE,
                                              !.error = message]
    /\ UNCHANGED <<calcVars, calcLog, dayTypeLog, appVars, storeVars, onboardingVars,
                   dashboardVars, profileVars, weight, mealIdea, aiFoodLogger,
                   weeklySummary, photoAnalyzer>>

\* WorkoutScreen.handleNewSetChange
handleNewSetChange(exerciseName, field, value) ==
    /\ DashboardFree /\ page = "workout"
    /\ exerciseName \in PlanExercises(workoutScreen.workoutPlan)
    /\ LET prev == workoutScreen.newSetData
           old  == IF exerciseName \in DOMAIN prev THEN prev[exerciseName]
                   ELSE [reps |-> << >>, weight |-> << >>]
       IN  /\ old[field] # value
           /\ workoutScreen' =
                [workoutScreen EXCEPT !.newSetData =
                    [k \in DOMAIN prev \cup {exerciseName} |->
                        IF k = exerciseName THEN [old EXCEPT ![field] = value]
                        ELSE prev[k]]]
    /\ UNCHANGED <<calcVars, calcLog, dayTypeLog, appVars, storeVars, onboardingVars,
                   dashboardVars, profileVars, weight, mealIdea, aiFoodLogger,
                   weeklySummary, photoAnalyzer>>

\* The set handleAddSet would log for the exercise: it returns early unless
\* both texts are non-empty.
HasNewSet(exerciseName) ==
    /\ exerciseName \in DOMAIN workoutScreen.newSetData
    /\ workoutScreen.newSetData[exerciseName].reps # << >>
    /\ workoutScreen.newSetData[exerciseName].weight # << >>

\* { reps: parseInt(currentSet.reps, 10), weight: parseFloat(currentSet.weight) }
NewSet(currentSet) ==
    [reps |-> ParseInt(currentSet.reps), weight |-> ParseFloat(currentSet.weight)]

\* { ...workoutLog, [exerciseName]: sets }
UpdatedLog(log, exerciseName, sets) ==
    [k \in DOMAIN log \cup {exerciseName} |->
        IF k = exerciseName THEN sets ELSE log[k]]

\* WorkoutScreen.handleAddSet
handleAddSet(exerciseName) ==
    /\ DashboardFree /\ page = "workout"
    /\ exerciseName \in PlanExercises(workoutScreen.workoutPlan)
    /\ Len(SetsOf(workoutLog, exerciseName)) < MaxSets
    /\ writes < MaxWrites
    /\ IF ~HasNewSet(exerciseName)
       THEN UNCHANGED <<dailyDocs, writes, workoutScreen>>
       ELSE /\ writes' = writes + 1
            /\ dailyDocs' =
                 MergeEntry(dailyDocs, selectedDate,
                     [workoutLog |->
                          UpdatedLog(workoutLog, exerciseName,
                              Append(SetsOf(workoutLog, exerciseName),
                                     NewSet(workoutScreen.newSetData[exerciseName]))),
                      date |-> selectedDate])
            /\ workoutScreen' =
                 [workoutScreen EXCEPT !.newSetData[exerciseName] =
                      [reps |-> << >>, weight |-> << >>]]
    /\ UNCHANGED <<calcVars, calcLog, dayTypeLog, appVars, profileDoc, onboardingVars,
                   dashboardVars, profileVars, weight, mealIdea, aiFoodLogger,
                   weeklySummary, photoAnalyzer>>

\* WorkoutScreen.handleDeleteSet, from the X button of the i-th set shown.
handleDeleteSet(exerciseName, i) ==
    /\ DashboardFree /\ page = "workout"
    /\ exerciseName \in PlanExercises(workoutScreen.workoutPlan)
    /\ i \in 1..Len(SetsOf(workoutLog, exerciseName))
    /\ writes < MaxWrites
    /\ writes' = writes + 1
    /\ dailyDocs' =
         MergeEntry(dailyDocs, selectedDate,
             [workoutLog |->
                  UpdatedLog(workoutLog, exerciseName,
                             RemoveAt(SetsOf(workoutLog, exerciseName), i))])
    /\ UNCHANGED <<calcVars, calcLog, dayTypeLog, appVars, profileDoc, onboardingVars,
                   dashboardVars, profileVars, screenVars>>

Yesterday == "2024-04-30"

\* What a returning user has stored: yesterday's entry with every field.
StoredEntries ==
    Yesterday :>
        [foods |-> <<[name |-> "chicken", protein |-> 40, carbs |-> 0, fat |-> 8,
                      calories |-> 232]>>,
         weightLbs |-> FromInt(181),
         isWorkoutDay |-> FALSE,
         workoutLog |-> ("bench" :> <<[reps |-> 5, weight |-> FromInt(135)]>>),
         date |-> Yesterday]

\* A returning user with yesterday's entry stored.
InitEntry ==
    /\ calcIn = ExampleProfile
    /\ calcOut = NoResult
    /\ AppStart
    /\ configured = TRUE
    /\ profileDoc = FinalProfile(CompleteFormData)
    /\ dailyDocs = StoredEntries
    /\ now = 1
    /\ calcLog = << >>
    /\ dayTypeLog = NoToggles
    /\ writes = 0

NextEntry ==
    \/ SignInSucceeds
    \/ DailyEntriesSnapshot
    \/ \E p \in {"home", "log", "workout"} : SetPage(p)
    \/ \E d \in Dates : handleDateChange(d)
    \/ OpenAiLogger
    \/ callGeminiApi
    \/ \E food \in Foods : addFood(food)
    \/ \E i \in 1..MaxFoods : deleteFood(i)
    \/ \E newWeight \in WeightInputs : handleWeightChange(newWeight)
    \/ handleDayTypeToggle
    \/ generatePlan
    \/ \E plan \in Plans : GeneratePlanSucceeds(plan)
    \/ \E exerciseName \in PlanExercises(workoutScreen.workoutPlan) :
         \E field \in DOMAIN SetInputs :
            \E value \in SetInputs[field] :
               handleNewSetChange(exerciseName, field, value)
    \/ \E exerciseName \in PlanExercises(workoutScreen.workoutPlan) :
         handleAddSet(exerciseName)
    \/ \E exerciseName \in PlanExercises(workoutScreen.workoutPlan) :
         \E i \in 1..MaxSets : handleDeleteSet(exerciseName, i)

SpecEntry == InitEntry /\ [][NextEntry]_vars

---------------------------------------------------------------------------
(* Properties of the daily-entry writes, checked under SpecEntry.          *)

\* This step leaves every stored entry of another date as it was and, on the
\* selected date, every field outside `provided`; it adds no entry but the
\* selected date's and no field outside `provided`.
FrameKept(provided) ==
    /\ DOMAIN dailyDocs' \subseteq DOMAIN dailyDocs \cup {selectedDate}
    /\ \A d \in DOMAIN dailyDocs :
          /\ d \in DOMAIN dailyDocs'
          /\ DOMAIN dailyDocs[d] \subseteq DOMAIN dailyDocs'[d]
          /\ DOMAIN dailyDocs'[d] \subseteq
                DOMAIN dailyDocs[d] \cup (IF d = selectedDate THEN provided ELSE {})
          /\ \A k \in DOMAIN dailyDocs[d] :
                (d # selectedDate \/ k \notin provided)
                    => dailyDocs'[d][k] = dailyDocs[d][k]
    /\ selectedDate \in DOMAIN dailyDocs' \ DOMAIN dailyDocs
          => DOMAIN dailyDocs'[selectedDate] \subseteq provided

\* C11: every daily-entry write (weight, day type, food added or deleted, set
\* added or deleted) changes only the fields it provides, on the selected
\* date's entry; every other field of that entry and every other date's entry
\* stay as stored.
C11_WritesKeepOtherFields ==
    [][/\ \A newWeight \in WeightInputs :
             handleWeightChange(newWeight) => FrameKept({"weightLbs"})
       /\ handleDayTypeToggle => FrameKept({"isWorkoutDay"})
       /\ \A food \in Foods : addFood(food) => FrameKept({"foods", "date"})
       /\ \A i \in 1..MaxFoods : deleteFood(i) => FrameKept({"foods"})
       /\ \A exerciseName \in PlanExercises(workoutScreen.workoutPlan) :
             /\ handleAddSet(exerciseName) => FrameKept({"workoutLog", "date"})
             /\ \A i \in 1..MaxSets :
                   handleDeleteSet(exerciseName, i) => FrameKept({"workoutLog"})
      ]_vars

\* C11 witness: on yesterday's entry, which had every field, the weight was
\* logged and the day type toggled; foods and workout log are as stored.
C11_Witness ==
    /\ Yesterday \in DOMAIN dailyDocs
    /\ dailyDocs[Yesterday].weightLbs = FromInt(150)
    /\ dailyDocs[Yesterday].isWorkoutDay = TRUE
    /\ dailyDocs[Yesterday].foods = StoredEntries[Yesterday].foods
    /\ dailyDocs[Yesterday].workoutLog = StoredEntries[Yesterday].workoutLog

---------------------------------------------------------------------------
(* Who writes the profile document: a new user onboards, edits the profile,*)
(* accepts a photo analysis and logs into the daily entry.                 *)

NextOwner ==
    \/ SignInSucceeds
    \/ DailyEntriesSnapshot
    \/ Reload
    \/ nextStep
    \/ OnboardingChange("weightLbs", Numeral(180))
    \/ OnboardingSubmit
    \/ \E p \in Pages : SetPage(p)
    \/ ToggleEditing
    \/ ProfileChange("weightLbs", Numeral(200))
    \/ ProfileSave
    \/ OpenPhotoAnalyzer
    \/ ClosePhotoAnalyzer
    \/ handleImageChange
    \/ handleAnalysis
    \/ \E r \in AnalysisResults : AnalysisSucceeds(r)
    \/ AcceptChanges
    \/ handleWeightChange(Numeral(150))
    \/ handleDayTypeToggle
    \/ OpenAiLogger
    \/ callGeminiApi
    \/ \E food \in Foods : addFood(food)
    \/ deleteFood(1)
    \/ generatePlan
    \/ \E plan \in Plans : GeneratePlanSucceeds(plan)
    \/ \E field \in DOMAIN SetInputs : \E value \in SetInputs[field] :
         handleNewSetChange("squat", field, value)
    \/ handleAddSet("squat")
    \/ handleDeleteSet("squat", 1)

SpecOwner == InitProfile /\ [][NextOwner]_vars

\* C12 as stated: the stored profile is created by the onboarding submit and
\* afterwards changes only in ProfileScreen.handleSave.
C12_OnlySaveChangesProfile ==
    [][profileDoc' # profileDoc =>
          IF profileDoc = NoProfile THEN OnboardingSubmit ELSE ProfileSave]_vars

\* C12 amended: the stored profile is created by the onboarding submit and
\* afterwards changes only in ProfileScreen.handleSave and in
\* ProgressPhotoAnalyzer.handleAcceptChanges; no write to a daily entry (weight,
\* day type, food, set) and no other step alters it.
C12_OnlySaveOrAcceptChangesProfile ==
    [][profileDoc' # profileDoc =>
          IF profileDoc = NoProfile THEN OnboardingSubmit
          ELSE ProfileSave \/ AcceptChanges]_vars

\* C12 witness: the profile was created, edited and saved, an analysis was
\* accepted at some time, and daily entries were written.
C12_Witness ==
    /\ profileDoc # NoProfile
    /\ profileDoc.weightLbs = Numeral(200)
    /\ \E r \in AnalysisResults : profileDoc.goals = AcceptedGoals(r)
    /\ writes = MaxWrites


----------------------------------------------------------------------------
\* The AI-backed requests: exercise substitution, meal idea, weekly summary.
\* (Food analysis, plan generation and photo analysis are above.)

\* The meal ideas and summaries the AI may return.
Ideas == {[mealName |-> "omelette"]}
Summaries == {"Good week."}

\* setSubstituteModal({ open: false, exerciseName: '', dayIndex: -1,
\*                      exerciseIndex: -1 })
SubstituteModalClosed == [open |-> FALSE, exerciseName |-> "", exerciseIndex |-> -1]

\* WorkoutScreen.openSubstituteModal up to the fetch, from the Replace button of
\* the exercise at exerciseIndex.
openSubstituteModal(exerciseName, exerciseIndex) ==
    /\ DashboardFree /\ page = "workout"
    /\ workoutScreen.workoutPlan # NoPlan
    /\ exerciseIndex \in DOMAIN workoutScreen.workoutPlan.exercises
    /\ workoutScreen.workoutPlan.exercises[exerciseIndex] = exerciseName
    /\ workoutScreen' =
         [workoutScreen EXCEPT
            !.substituteModal = [open |-> TRUE, exerciseName |-> exerciseName,
                                 exerciseIndex |-> exerciseIndex],
            !.isSubstituting = TRUE,
            !.substitutions = << >>]
    /\ UNCHANGED <<calcVars, calcLog, dayTypeLog, appVars, storeVars, onboardingVars,
                   dashboardVars, profileVars, weight, mealIdea, aiFoodLogger,
                   weeklySummary, photoAnalyzer>>

\* WorkoutScreen.openSubstituteModal: the request returns the alternatives.
SubstitutionSucceeds(subs) ==
    /\ DashboardRendered /\ page = "workout"
    /\ workoutScreen.isSubstituting
    /\ workoutScreen' = [workoutScreen EXCEPT !.substitutions = subs,
                                              !.isSubstituting = FALSE]
    /\ UNCHANGED <<calcVars, calcLog, dayTypeLog, appVars, storeVars, onboardingVars,
                   dashboardVars, profileVars, weight, mealIdea, aiFoodLogger,
                   weeklySummary, photoAnalyzer>>

\* WorkoutScreen.openSubstituteModal: the request fails; catch logs the error
\* to the console, finally ends the spinner.
SubstitutionFails(message) ==
    /\ DashboardRendered /\ page = "workout"
    /\ workoutScreen.isSubstituting
    /\ workoutScreen' = [workoutScreen EXCEPT !.isSubstituting = FALSE]
    /\ UNCHANGED <<calcVars, calcLog, dayTypeLog, appVars, storeVars, onboardingVars,
                   dashboardVars, profileVars, weight, mealIdea, aiFoodLogger,
                   weeklySummary, photoAnalyzer>>

\* SubstitutionModal: the X button.
CloseSubstituteModal ==
    /\ DashboardRendered /\ page = "workout"
    /\ workoutScreen.substituteModal.open
    /\ workoutScreen' = [workoutScreen EXCEPT !.substituteModal = SubstituteModalClosed]
    /\ UNCHANGED <<calcVars, calcLog, dayTypeLog, appVars, storeVars, onboardingVars,
                   dashboardVars, profileVars, weight, mealIdea, aiFoodLogger,
                   weeklySummary, photoAnalyzer>>

\* WorkoutScreen.handleSelectSubstitution, from a button of the list the modal
\* shows when it is not loading.
handleSelectSubstitution(newExerciseName) ==
    /\ DashboardRendered /\ page = "workout"
    /\ workoutScreen.substituteModal.open
    /\ ~workoutScreen.isSubstituting
    /\ \E k \in DOMAIN workoutScreen.substitutions :
          workoutScreen.substitutions[k] = newExerciseName
    /\ workoutScreen' =
         [workoutScreen EXCEPT
            !.workoutPlan.exercises[workoutScreen.substituteModal.exerciseIndex] =
                newExerciseName,
            !.substituteModal = SubstituteModalClosed]
    /\ UNCHANGED <<calcVars, calcLog, dayTypeLog, appVars, storeVars, onboardingVars,
                   dashboardVars, profileVars, weight, mealIdea, aiFoodLogger,
                   weeklySummary, photoAnalyzer>>

\* HomeScreen: the meal idea button; MealIdeaGenerator mounts and its effect
\* starts fetchMealIdea.
OpenMealIdea ==
    /\ DashboardFree /\ page = "home"
    /\ mealIdea' = [MealIdeaClosed EXCEPT !.show = TRUE]
    /\ UNCHANGED <<calcVars, calcLog, dayTypeLog, appVars, storeVars, onboardingVars,
                   dashboardVars, profileVars, weight, aiFoodLogger, workoutScreen,
                   weeklySummary, photoAnalyzer>>

\* MealIdeaGenerator.fetchMealIdea: the request returns the idea.
MealIdeaSucceeds(idea) ==
    /\ DashboardRendered /\ mealIdea.show
    /\ mealIdea.isLoading
    /\ mealIdea' = [mealIdea EXCEPT !.idea = idea, !.isLoading = FALSE]
    /\ UNCHANGED <<calcVars, calcLog, dayTypeLog, appVars, storeVars, onboardingVars,
                   dashboardVars, profileVars, weight, aiFoodLogger, workoutScreen,
                   weeklySummary, photoAnalyzer>>

\* MealIdeaGenerator.fetchMealIdea: the request fails (catch, finally).
MealIdeaFails(message) ==
    /\ DashboardRendered /\ mealIdea.show
    /\ mealIdea.isLoading
    /\ mealIdea' = [mealIdea EXCEPT !.error = message, !.isLoading = FALSE]
    /\ UNCHANGED <<calcVars, calcLog, dayTypeLog, appVars, storeVars, onboardingVars,
                   dashboardVars, profileVars, weight, aiFoodLogger, workoutScreen,
                   weeklySummary, photoAnalyzer>>

\* MealIdeaGenerator: the X button.
CloseMealIdea ==
    /\ DashboardRendered /\ mealIdea.show
    /\ mealIdea' = MealIdeaClosed
    /\ UNCHANGED <<calcVars, calcLog, dayTypeLog, appVars, storeVars, onboardingVars,
                   dashboardVars, profileVars, weight, aiFoodLogger, workoutScreen,
                   weeklySummary, photoAnalyzer>>

\* chartData.length of ChartsScreen: one point per stored day.
ChartLength == Cardinality(DOMAIN dailyData)

\* ChartsScreen: the weekly summary button, rendered from two days of data on;
\* WeeklySummaryGenerator mounts and its effect starts fetchSummary, or gives
\* up on empty weeklyData.
OpenWeeklySummary ==
    /\ DashboardFree /\ page = "charts"
    /\ ChartLength >= 2
    /\ weeklySummary' =
         IF ChartLength > 0
         THEN [WeeklySummaryClosed EXCEPT !.show = TRUE]
         ELSE [WeeklySummaryClosed EXCEPT
                 !.show = TRUE, !.isLoading = FALSE,
                 !.summary = "Not enough data to generate a summary."]
    /\ UNCHANGED <<calcVars, calcLog, dayTypeLog, appVars, storeVars, onboardingVars,
                   dashboardVars, profileVars, weight, mealIdea, aiFoodLogger,
                   workoutScreen, photoAnalyzer>>

\* WeeklySummaryGenerator.fetchSummary: the request returns the text.
WeeklySummarySucceeds(text) ==
    /\ DashboardRendered /\ weeklySummary.show
    /\ weeklySummary.isLoading
    /\ weeklySummary' = [weeklySummary EXCEPT !.summary = text, !.isLoading = FALSE]
    /\ UNCHANGED <<calcVars, calcLog, dayTypeLog, appVars, storeVars, onboardingVars,
                   dashboardVars, profileVars, weight, mealIdea, aiFoodLogger,
                   workoutScreen, photoAnalyzer>>

\* WeeklySummaryGenerator.fetchSummary: the request fails (catch, finally).
WeeklySummaryFails(message) ==
    /\ DashboardRendered /\ weeklySummary.show
    /\ weeklySummary.isLoading
    /\ weeklySummary' = [weeklySummary EXCEPT !.error = message, !.isLoading = FALSE]
    /\ UNCHANGED <<calcVars, calcLog, dayTypeLog, appVars, storeVars, onboardingVars,
                   dashboardVars, profileVars, weight, mealIdea, aiFoodLogger,
                   workoutScreen, photoAnalyzer>>

\* WeeklySummaryGenerator: the X button.
CloseWeeklySummary ==
    /\ DashboardRendered /\ weeklySummary.show
    /\ weeklySummary' = WeeklySummaryClosed
    /\ UNCHANGED <<calcVars, calcLog, dayTypeLog, appVars, storeVars, onboardingVars,
                   dashboardVars, profileVars, weight, mealIdea, aiFoodLogger,
                   workoutScreen, photoAnalyzer>>


\* A returning user on any page, with every AI-backed request and both of its
\* outcomes.
NextAi ==
    \/ SignInSucceeds
    \/ DailyEntriesSnapshot
    \/ \E p \in Pages : SetPage(p)
    \/ handleDayTypeToggle
    \/ OpenAiLogger
    \/ CloseAiLogger
    \/ callGeminiApi
    \/ \E message \in ErrorMessages : FoodAnalysisFails(message)
    \/ \E food \in Foods : addFood(food)
    \/ generatePlan
    \/ \E plan \in Plans : GeneratePlanSucceeds(plan)
    \/ \E message \in ErrorMessages : GeneratePlanFails(message)
    \/ \E exerciseName \in PlanExercises(workoutScreen.workoutPlan) :
         \E exerciseIndex \in 1..2 : openSubstituteModal(exerciseName, exerciseIndex)
    \/ \E subs \in Substitutions : SubstitutionSucceeds(subs)
    \/ \E message \in ErrorMessages : SubstitutionFails(message)
    \/ CloseSubstituteModal
    \/ \E newExerciseName \in {"lunge"} : handleSelectSubstitution(newExerciseName)
    \/ OpenMealIdea
    \/ \E idea \in Ideas : MealIdeaSucceeds(idea)
    \/ \E message \in ErrorMessages : MealIdeaFails(message)
    \/ CloseMealIdea
    \/ OpenWeeklySummary
    \/ \E text \in Summaries : WeeklySummarySucceeds(text)
    \/ \E message \in ErrorMessages : WeeklySummaryFails(message)
    \/ CloseWeeklySummary
    \/ OpenPhotoAnalyzer
    \/ ClosePhotoAnalyzer
    \/ handleImageChange
    \/ handleAnalysis
    \/ \E r \in AnalysisResults : AnalysisSucceeds(r)
    \/ \E message \in ErrorMessages : AnalysisFails(message)

SpecAi == InitEntry /\ [][NextAi]_vars

\* The error messages on screen: {error && <p ...>{error}</p>} of each
\* component that is rendered.
VisibleErrors ==
    {message \in ErrorMessages :
        /\ DashboardRendered
        /\ \/ aiFoodLogger.show /\ aiFoodLogger.error = message
           \/ page = "workout" /\ workoutScreen.error = message
           \/ mealIdea.show /\ mealIdea.error = message
           \/ weeklySummary.show /\ weeklySummary.error = message
           \/ /\ showPhotoAnalyzer /\ analysisResult = NoAnalysis
              /\ photoAnalyzer.error = message}

\* The control that starts each request is on screen and not disabled (it may
\* lie under a modal that its X button closes).
FoodAnalysisRetry ==
    DashboardRendered /\ aiFoodLogger.show /\ ~aiFoodLogger.isLoading
PlanRetry ==
    /\ DashboardRendered /\ page = "workout"
    /\ workoutScreen.workoutPlan = NoPlan /\ ~workoutScreen.isLoading
SubstitutionRetry ==
    DashboardRendered /\ page = "workout" /\ workoutScreen.workoutPlan # NoPlan
MealIdeaRetry == DashboardRendered /\ page = "home"
WeeklySummaryRetry == DashboardRendered /\ page = "charts" /\ ChartLength >= 2
PhotoAnalysisRetry ==
    /\ DashboardRendered /\ showPhotoAnalyzer /\ analysisResult = NoAnalysis
    /\ photoAnalyzer.imageFile /\ ~photoAnalyzer.isLoading

\* C13: every failed AI-backed request (food analysis, workout plan, exercise
\* substitution, meal idea, weekly summary, progress-photo analysis) leaves its
\* error message on screen and its triggering control available.
C13_FailureShowsErrorAndRetry ==
    [][\A message \in ErrorMessages :
         /\ FoodAnalysisFails(message) =>
               (message \in VisibleErrors /\ FoodAnalysisRetry)'
         /\ GeneratePlanFails(message) =>
               (message \in VisibleErrors /\ PlanRetry)'
         /\ SubstitutionFails(message) =>
               (message \in VisibleErrors /\ SubstitutionRetry)'
         /\ MealIdeaFails(message) =>
               (message \in VisibleErrors /\ MealIdeaRetry)'
         /\ WeeklySummaryFails(message) =>
               (message \in VisibleErrors /\ WeeklySummaryRetry)'
         /\ AnalysisFails(message) =>
               (message \in VisibleErrors /\ PhotoAnalysisRetry)']_vars


----------------------------------------------------------------------------
\* The budget of the selected day: goals, consumed, remaining.

\* isWorkoutDay ? profile.goals.workout : profile.goals.rest
GoalsFor(prof, workout) == IF workout THEN prof.goals.workout ELSE prof.goals.rest

\* Dashboard: goals
goals == GoalsFor(profile, isWorkoutDay)

\* An absent field counted as one.
FoodField_One(food, k) == IF k \in DOMAIN food THEN food[k] ELSE 1

\* (food.k || 0)
FoodField(food, k) == IF k \in DOMAIN food THEN food[k] ELSE 0

\* The k component of foods.reduce(...), summed from the first item on.
RECURSIVE SumField(_, _)
SumField(foods, k) ==
    IF foods = << >> THEN 0
    ELSE SumField(SubSeq(foods, 1, Len(foods) - 1), k)
           + FoodField(foods[Len(foods)], k)

\* Dashboard: consumed, for a daily entry or NoEntry.
ConsumedOf(entry) ==
    IF "foods" \notin DOMAIN entry THEN [k \in GoalKeys |-> 0]
    ELSE [k \in GoalKeys |-> SumField(entry.foods, k)]

consumed == ConsumedOf(todayEntry)

\* goals.k, NaN in arithmetic when the goal set has no such field.
GoalField(g, k) == IF k \in DOMAIN g THEN g[k] ELSE NaN

\* Remaining that stops at zero.
RemainingOf_Clamped(g, c) ==
    [k \in GoalKeys |->
        IF Minus(GoalField(g, k), c[k]) < 0 THEN 0 ELSE Minus(GoalField(g, k), c[k])]

\* HomeScreen: remaining
RemainingOf(g, c) == [k \in GoalKeys |-> Minus(GoalField(g, k), c[k])]

remaining == RemainingOf(goals, consumed)

\* The goals and the foods of the documented example, and a day over budget.
ExampleGoals == [calories |-> 2000, protein |-> 150, carbs |-> 200, fat |-> 60]
ExampleFood ==
    [name |-> "lunch", calories |-> 500, protein |-> 40, carbs |-> 60, fat |-> 10]
BigFood ==
    [name |-> "feast", calories |-> 2000, protein |-> 90, carbs |-> 230, fat |-> 70]

\* Food items that lack numeric fields.
PartialFoods == <<[name |-> "water"], [name |-> "egg", protein |-> 6, calories |-> 70]>>

\* The food lists of the entries the budget is computed from.
FoodLists ==
    {<< >>, <<ExampleFood>>, <<ExampleFood, BigFood>>, PartialFoods \o <<ExampleFood>>}

\* The entries a day may have stored: with or without foods, with or without
\* the day type.
DayEntries(d) ==
    LET base == {[date |-> d], [weightLbs |-> FromInt(180)]}
                  \cup {[foods |-> f, date |-> d] : f \in FoodLists}
    IN  base \cup {e @@ [isWorkoutDay |-> b] : e \in base, b \in BOOLEAN}

\* The profiles the budget is computed from: goals as calculated at
\* onboarding, and goals as accepted from an analysis that returned ExampleGoals.
BudgetProfiles ==
    {FinalProfile(CompleteFormData),
     AcceptedProfile(FinalProfile(CompleteFormData), ExampleGoals, 0)}

InitBudget ==
    /\ calcIn = ExampleProfile
    /\ calcOut = NoResult
    /\ AppStart
    /\ configured = TRUE
    /\ profileDoc \in BudgetProfiles
    /\ dailyDocs \in {StoredEntries} \cup
                     {StoredEntries @@ (Today :> e) : e \in DayEntries(Today)}
    /\ now = 1
    /\ calcLog = << >>
    /\ dayTypeLog = NoToggles
    /\ writes = 0

NextBudget ==
    \/ SignInSucceeds
    \/ DailyEntriesSnapshot
    \/ \E p \in {"home", "log"} : SetPage(p)
    \/ \E d \in Dates : handleDateChange(d)
    \/ handleDayTypeToggle
    \/ \E i \in 1..MaxFoods : deleteFood(i)

SpecBudget == InitBudget /\ [][NextBudget]_vars

\* HomeScreen is rendered: remaining is computed.
HomeRendered == DashboardRendered /\ page = "home"

\* C14: remaining is goal minus consumed per field, negative when more was
\* consumed than the goal: the documented example gives {1500, 110, 140, 50},
\* and 2500 consumed calories against a goal of 2000 give -500.
C14_RemainingIsGoalMinusConsumed ==
    HomeRendered =>
       /\ \A k \in GoalKeys : remaining[k] + consumed[k] = goals[k]
       /\ (goals = ExampleGoals /\ todayEntry # NoEntry
             /\ "foods" \in DOMAIN todayEntry /\ todayEntry.foods = <<ExampleFood>>)
          => remaining = [calories |-> 1500, protein |-> 110, carbs |-> 140, fat |-> 50]
       /\ (goals.calories = 2000 /\ consumed.calories = 2500)
          => remaining.calories = 0 - 500

\* The example's day and the day over budget are on screen.
C14_Witness ==
    /\ HomeRendered
    /\ goals = ExampleGoals
    /\ consumed.calories = 2500
    /\ remaining.calories < 0

C14_ExampleWitness ==
    /\ HomeRendered
    /\ goals = ExampleGoals
    /\ consumed = [calories |-> 500, protein |-> 40, carbs |-> 60, fat |-> 10]


\* The positions of foods whose item carries the field k.
ItemsWith(foods, k) == {i \in DOMAIN foods : k \in DOMAIN foods[i]}

\* The total of field k over the positions in S.
RECURSIVE TotalOver(_, _, _)
TotalOver(foods, k, S) ==
    IF S = {} THEN 0
    ELSE LET i == CHOOSE j \in S : TRUE
         IN  foods[i][k] + TotalOver(foods, k, S \ {i})

\* C15: the consumed totals of the selected date are the field-wise sums over
\* the entry's foods, an absent field counting as 0; they are all 0 when the
\* entry or its food list is absent; they are numbers in every case.
C15_ConsumedIsFieldwiseSum ==
    DashboardRendered =>
       /\ \A k \in GoalKeys : consumed[k] \in Nat
       /\ (todayEntry = NoEntry \/ "foods" \notin DOMAIN todayEntry)
          => consumed = [calories |-> 0, protein |-> 0, carbs |-> 0, fat |-> 0]
       /\ "foods" \in DOMAIN todayEntry
          => \A k \in GoalKeys :
                consumed[k] = TotalOver(todayEntry.foods, k,
                                        ItemsWith(todayEntry.foods, k))

\* A day whose foods include items without numeric fields is on screen.
C15_Witness ==
    /\ DashboardRendered
    /\ "foods" \in DOMAIN todayEntry
    /\ todayEntry.foods = PartialFoods \o <<ExampleFood>>
    /\ consumed = [calories |-> 570, protein |-> 46, carbs |-> 60, fat |-> 10]

\* A day with an entry but no food list is on screen.
C15_NoFoodsWitness ==
    /\ DashboardRendered
    /\ todayEntry # NoEntry /\ "foods" \notin DOMAIN todayEntry
    /\ consumed.calories = 0


\* C16: a date with no entry, and an entry with no isWorkoutDay field, resolve
\* to a workout day and select the workout goals; the rest goals are selected
\* only when the entry's isWorkoutDay is false.
C16_DayTypeDefaultsToWorkout ==
    DashboardRendered =>
       /\ (selectedDate \notin DOMAIN dailyData
             \/ "isWorkoutDay" \notin DOMAIN dailyData[selectedDate])
          => (isWorkoutDay = TRUE /\ goals = profile.goals.workout)
       /\ (goals = profile.goals.rest /\ profile.goals.rest # profile.goals.workout)
          => /\ selectedDate \in DOMAIN dailyData
             /\ "isWorkoutDay" \in DOMAIN dailyData[selectedDate]
             /\ dailyData[selectedDate].isWorkoutDay = FALSE
       /\ (selectedDate \in DOMAIN dailyData
             /\ "isWorkoutDay" \in DOMAIN dailyData[selectedDate]
             /\ dailyData[selectedDate].isWorkoutDay = TRUE)
          => goals = profile.goals.workout

\* An entry that has foods but no day type is on screen, with the workout goals.
C16_Witness ==
    /\ DashboardRendered
    /\ selectedDate \in DOMAIN dailyData
    /\ "isWorkoutDay" \notin DOMAIN dailyData[selectedDate]
    /\ "foods" \in DOMAIN dailyData[selectedDate]
    /\ goals = ExampleGoals

\* A date without entry, and an explicit rest day, are on screen.
C16_NoEntryWitness ==
    DashboardRendered /\ selectedDate \notin DOMAIN dailyData /\ isWorkoutDay

C16_RestWitness ==
    /\ DashboardRendered
    /\ goals = profile.goals.rest /\ goals # profile.goals.workout


----------------------------------------------------------------------------
\* C17: the write of onboarding submit and the write of handleSave store the
\* submitted form's fields together with calculateMacros of that same form, in
\* Firestore and in the app's state; goals of the old values are never kept.
C17_SavedGoalsFromSubmittedForm ==
    [][/\ OnboardingSubmit =>
             /\ profileDoc'.goals = GoalsOf(calculateMacros(onboardingForm))
             /\ profile'.goals = GoalsOf(calculateMacros(onboardingForm))
             /\ \A k \in DOMAIN onboardingForm :
                   profileDoc'[k] = onboardingForm[k] /\ profile'[k] = onboardingForm[k]
       /\ ProfileSave =>
             /\ profileDoc'.goals = GoalsOf(calculateMacros(profileForm))
             /\ profile'.goals = GoalsOf(calculateMacros(profileForm))
             /\ \A k \in DOMAIN profileForm \ {"goals"} :
                   profileDoc'[k] = profileForm[k] /\ profile'[k] = profileForm[k]]_vars

\* An analysis was accepted and then the weight was edited and saved: the
\* stored goals are the ones calculated for the new weight.
C17_Witness ==
    /\ profileDoc # NoProfile
    /\ profileDoc.lastPhotoUploadDate # << >>
    /\ profileDoc.weightLbs = Numeral(200)
    /\ profileDoc.goals = GoalsOf(calculateMacros(profileDoc))
    /\ profile.goals = profileDoc.goals


----------------------------------------------------------------------------
\* Repeated calls of calculateMacros.

MaxCalls == 3

\* The profiles of the repeated calls: the example, a heavier and a female
\* variant of it, and an incomplete one.
RepeatProfiles ==
    {ExampleProfile,
     [ExampleProfile EXCEPT !.weightLbs = Numeral(200)],
     [ExampleProfile EXCEPT !.gender = "female"],
     Without(ExampleProfile, {"age"}, {})}

InitRepeat ==
    /\ calcIn \in RepeatProfiles
    /\ calcOut = NoResult
    /\ AppInit

\* The caller takes the result and passes the next profile.
NextCall(p) ==
    /\ calcOut # NoResult
    /\ Len(calcLog) < MaxCalls
    /\ calcIn' = p
    /\ calcOut' = NoResult
    /\ UNCHANGED <<calcLog, dayTypeLog, screenVars, appVars, storeVars, onboardingVars,
                   dashboardVars, profileVars>>

NextRepeat ==
    \/ Calculate
    \/ \E p \in RepeatProfiles : NextCall(p)

SpecRepeat == InitRepeat /\ [][NextRepeat]_vars

----------------------------------------------------------------------------
\* Profiles at the edges of calculateMacros: an activity level outside the
\* table, and no heightInches.

\* Activity levels that are no key of activityMultipliers.
UnknownLevels == {"unknown", "Sedentary"}

UnknownLevelProfiles ==
    {[p EXCEPT !.activityLevel = level] :
        p \in {q \in CompleteProfiles : q.activityLevel = "sedentary"},
        level \in UnknownLevels}

\* Complete profiles whose heightInches is undefined or ''.
NoInchesProfiles ==
    {Without(p, gone, {"heightInches"} \ gone) :
        p \in {q \in CompleteProfiles : q.heightInches = Numeral(0)},
        gone \in {{}, {"heightInches"}}}

InitEdge ==
    /\ calcIn \in UnknownLevelProfiles \cup NoInchesProfiles
    /\ calcOut = NoResult
    /\ AppInit

SpecEdge == InitEdge /\ [][NextCalc]_vars

\* C19: with every required field present and an activityLevel that is no key
\* of the table, calculateMacros returns a full result without failing and
\* without a default multiplier: tdee, deficit and the calories, fat and carbs
\* of both goal sets are NaN, while bmr and protein are numbers.
C19_UnknownLevelGivesNaN ==
    (calcOut # NoResult
       /\ ~MissingRequired(calcIn)
       /\ calcIn.activityLevel \notin DOMAIN activityMultipliers)
    => /\ DOMAIN calcOut = {"bmr", "tdee", "deficit", "workout", "rest"}
       /\ calcOut.bmr # NaN
       /\ calcOut.tdee = NaN /\ calcOut.deficit = NaN
       /\ \A set \in {"workout", "rest"} :
             /\ DOMAIN calcOut[set] = GoalKeys
             /\ calcOut[set].calories = NaN
             /\ calcOut[set].fat = NaN
             /\ calcOut[set].carbs = NaN
             /\ calcOut[set].protein # NaN
             /\ calcOut[set].protein = MathRound(MulQ(WeightKg(calcIn), 11, 5))

\* The example's person with an unknown activity level has been calculated.
C19_Witness ==
    /\ calcOut # NoResult
    /\ calcIn = [ExampleProfile EXCEPT !.heightInches = Numeral(0),
                                       !.activityLevel = "unknown"]
    /\ calcOut.workout.protein = 180
    /\ calcOut.workout.calories = NaN

\* C20: for a profile with the required fields present, the result without
\* heightInches is the result with heightInches "0".
C20_AbsentInchesIsZero ==
    (calcOut # NoResult
       /\ ~MissingRequired(calcIn)
       /\ "heightInches" \notin DOMAIN calcIn)
    => calcOut = calculateMacros([k \in DOMAIN calcIn \cup {"heightInches"} |->
                                    IF k = "heightInches" THEN Numeral(0)
                                    ELSE calcIn[k]])

\* The example's person without heightInches has been calculated, with goals.
C20_Witness ==
    /\ calcOut # NoResult
    /\ calcIn = Without(ExampleProfile, {"heightInches"}, {})
    /\ calcOut.workout # EmptyObject
    /\ calcOut.workout.protein = 180


----------------------------------------------------------------------------
\* Start-up: authentication, the profile read and the daily-entries listener,
\* each with its failure.

\* A renderContent without the wait for the first snapshot.
renderContent_NoDataGate ==
    IF ~configured THEN "configuration error"
    ELSE IF screen = "loading" THEN "loading"
    ELSE IF screen = "onboarding" THEN "onboarding"
    ELSE IF screen = "dashboard" /\ profile # NoProfile THEN "dashboard"
    ELSE IF screen = "error" THEN "error"
    ELSE "loading"

\* What App.renderContent returns.
renderContent ==
    IF ~configured THEN "configuration error"
    ELSE IF screen = "loading" \/ (user # "none" /\ ~isDataLoaded) THEN "loading"
    ELSE IF screen = "onboarding" THEN "onboarding"
    ELSE IF screen = "dashboard" /\ profile # NoProfile THEN "dashboard"
    ELSE IF screen = "error" THEN "error"
    ELSE "loading"

\* onAuthStateChanged fires again, with a user, after a failed sign-in (the
\* session was established later, or in another tab): the callback sets the
\* user and reads the profile.
AuthStateChange ==
    /\ user = "none" /\ screen = "error"
    /\ user' = "u1"
    /\ listener' = "on"
    /\ IF profileDoc # NoProfile
       THEN profile' = profileDoc /\ screen' = "dashboard"
       ELSE profile' = profile /\ screen' = "onboarding"
    /\ UNCHANGED <<calcVars, calcLog, dayTypeLog, screenVars, isDataLoaded, dailyData, configured,
                   storeVars, onboardingVars, dashboardVars, profileVars>>

\* A new or a returning user opens the app.
InitAuth ==
    /\ calcIn = ExampleProfile
    /\ calcOut = NoResult
    /\ AppStart
    /\ configured = TRUE
    /\ profileDoc \in {NoProfile, FinalProfile(CompleteFormData)}
    /\ dailyDocs \in {EmptyObject, StoredEntries}
    /\ now = 1
    /\ calcLog = << >>
    /\ dayTypeLog = NoToggles
    /\ writes = 0

NextAuth ==
    \/ SignInSucceeds
    \/ SignInFails
    \/ ProfileReadFails
    \/ AuthStateChange
    \/ DailyEntriesSnapshot
    \/ DailyEntriesFails
    \/ Reload
    \/ \E field \in DOMAIN OnboardingValues :
         \E value \in OnboardingValues[field] : OnboardingChange(field, value)
    \/ nextStep
    \/ prevStep
    \/ OnboardingSubmit
    \/ \E p \in Pages : SetPage(p)

\* Every pending request is answered: the sign-in and the profile read resolve
\* or reject, the listener delivers its first snapshot or its error.
SpecAuth ==
    /\ InitAuth
    /\ [][NextAuth]_vars
    /\ WF_vars(SignInSucceeds \/ SignInFails \/ ProfileReadFails)
    /\ WF_vars(DailyEntriesSnapshot \/ DailyEntriesFails)

\* C21: once a user is authenticated the app eventually shows something other
\* than the loading screen, whatever the profile read and the daily-entries
\* listener answer.
C21_LeavesLoading == [](user # "none" => <>(renderContent # "loading"))


\* C22: with no current user a sign-in is attempted; its success sets the user
\* and reads the profile (dashboard with the stored profile, or onboarding);
\* its failure sets the screen to 'error', and from 'error' the screen reaches
\* dashboard or onboarding only through a new auth-state change (or a reload
\* of the page).
C22_SignInOutcomes ==
    [][/\ SignInSucceeds =>
             /\ user' # "none"
             /\ IF profileDoc # NoProfile
                THEN screen' = "dashboard" /\ profile' = profileDoc
                ELSE screen' = "onboarding" /\ profile' = NoProfile
       /\ SignInFails => (screen' = "error" /\ user' = "none")
       /\ (user = "none" /\ screen = "loading") =>
             ENABLED (SignInSucceeds \/ SignInFails \/ ProfileReadFails)
       /\ (screen = "error" /\ screen' # "error") => (AuthStateChange \/ Reload)
       /\ (renderContent = "error" /\ renderContent' \in {"dashboard", "onboarding"})
             => AuthStateChange]_vars

\* The sign-in failed and the error message is on screen.
C22_Witness == screen = "error" /\ user = "none" /\ renderContent = "error"

\* After a failed sign-in a later auth-state change brought the user in.
C22_LaterWitness ==
    /\ renderContent = "dashboard" /\ user # "none"
    /\ profile = FinalProfile(CompleteFormData) /\ dailyData = StoredEntries


----------------------------------------------------------------------------
\* C23: handleSave leaves lastPhotoUploadDate as it was stored just before the
\* save, in Firestore and in the app's state, also after an analysis was
\* accepted on the same profile page.
C23_SaveKeepsUploadDate ==
    [][ProfileSave =>
          /\ profileDoc'.lastPhotoUploadDate = profileDoc.lastPhotoUploadDate
          /\ profile'.lastPhotoUploadDate = profile.lastPhotoUploadDate]_vars


----------------------------------------------------------------------------
\* What App renders, for a build with or without its API keys.

InitRender ==
    /\ calcIn = ExampleProfile
    /\ calcOut = NoResult
    /\ AppStart
    /\ configured \in BOOLEAN
    /\ profileDoc \in {NoProfile, FinalProfile(CompleteFormData)}
    /\ dailyDocs \in {EmptyObject, StoredEntries}
    /\ now = 1
    /\ calcLog = << >>
    /\ dayTypeLog = NoToggles
    /\ writes = 0

SpecRender == InitRender /\ [][NextAuth]_vars

\* C24: the Dashboard is rendered only when the screen is 'dashboard', the
\* profile is not null and the first daily-entries snapshot has arrived (in a
\* configured build); in every other state App renders the loading screen,
\* onboarding, the error message or the configuration error.
C24_DashboardGated ==
    /\ renderContent = "dashboard" =>
          (configured /\ screen = "dashboard" /\ profile # NoProfile /\ isDataLoaded)
    /\ renderContent # "dashboard" =>
          renderContent \in {"loading", "onboarding", "error", "configuration error"}
    /\ DashboardRendered <=> renderContent = "dashboard"
    /\ ~configured => renderContent = "configuration error"

\* The Dashboard is on screen, with its data.
C24_Witness ==
    /\ renderContent = "dashboard"
    /\ isDataLoaded /\ listener = "on"
    /\ profile = FinalProfile(CompleteFormData)
    /\ dailyData = StoredEntries

\* The profile is read and the screen is 'dashboard', but the first snapshot
\* has not arrived: the loading screen is up.
C24_WaitingWitness ==
    screen = "dashboard" /\ profile # NoProfile /\ ~isDataLoaded
       /\ renderContent = "loading"

---------------------------------------------------------------------------
(* The weight of the day: the home screen's input and the daily prompt.    *)

\* What the user types into a weight input: nothing, zero, a weight, a negative
\* number and a fraction below one.
AllWeightInputs == WeightInputs \cup {<<"-", "5">>, <<"0", ".", "5">>}

\* DailyWeightPrompt: onChange of the input, setWeight(e.target.value).
setWeight(text) ==
    /\ DashboardRendered /\ weightPrompt.show
    /\ text # weightPrompt.weight
    /\ weightPrompt' = [weightPrompt EXCEPT !.weight = text]
    /\ UNCHANGED <<calcVars, calcLog, dayTypeLog, appVars, storeVars, onboardingVars, page,
                   selectedDate, profileVars, screenVars>>

\* DailyWeightPrompt.handleSave, then onClose; the Save Weight button is
\* disabled while the input is empty.
DailyWeightPromptSave ==
    /\ DashboardRendered /\ weightPrompt.show
    /\ weightPrompt.weight # << >>
    /\ writes < MaxWrites
    /\ IF IsPositiveText(weightPrompt.weight)
       THEN /\ dailyDocs' = MergeEntry(dailyDocs, Today,
                                       [weightLbs |-> ParseFloat(weightPrompt.weight),
                                        date |-> Today])
            /\ writes' = writes + 1
            /\ weightPrompt' = WeightPromptClosed
       ELSE UNCHANGED <<dailyDocs, writes, weightPrompt>>
    /\ UNCHANGED <<calcVars, calcLog, dayTypeLog, appVars, profileDoc, onboardingVars, page,
                   selectedDate, profileVars, screenVars>>

NextWeight ==
    \/ SignInSucceeds
    \/ DailyEntriesSnapshot
    \/ Reload
    \/ \E d \in Dates : handleDateChange(d)
    \/ \E newWeight \in AllWeightInputs : handleWeightChange(newWeight)
    \/ \E text \in AllWeightInputs : setWeight(text)
    \/ DailyWeightPromptSave
    \/ OpenPhotoAnalyzer
    \/ handleImageChange
    \/ handleAnalysis
    \/ \E r \in AnalysisResults : AnalysisSucceeds(r)
    \/ AcceptChanges

SpecWeight == InitEntry /\ [][NextWeight]_vars

\* A number above zero.
IsPositive(q) == q.i > 0 \/ (q.i = 0 /\ q.n > 0)

\* C25: whatever is typed into the home screen's weight input and into the
\* daily weight prompt, every weightLbs a daily entry stores is a number above
\* zero; a step of either handler changes the collection only for an input
\* above zero, and an input that is empty, zero or negative leaves the
\* collection as it was.
C25_StoredWeightsArePositive ==
    /\ [](\A d \in DOMAIN dailyDocs :
            "weightLbs" \in DOMAIN dailyDocs[d] => IsPositive(dailyDocs[d].weightLbs))
    /\ [][\A newWeight \in AllWeightInputs :
            handleWeightChange(newWeight)
               => (dailyDocs' # dailyDocs
                     => newWeight # << >> /\ IsPositive(NumberOf(newWeight)))]_vars
    /\ [][(DailyWeightPromptSave /\ dailyDocs' # dailyDocs)
            => /\ weightPrompt.weight # << >>
               /\ IsPositive(NumberOf(weightPrompt.weight))]_vars

\* A weight saved from the prompt is stored for today, and a zero typed on the
\* home screen afterwards is in the input without having been written.
C25_Witness ==
    /\ "weightLbs" \in DOMAIN EntryOf(dailyDocs, Today)
    /\ weight = [text |-> Numeral(0)]
    /\ selectedDate = Today
    /\ writes = 1

---------------------------------------------------------------------------
(* The loading flags of the AI requests.                                   *)

\* C26: every step in which an AI request completes, with an answer or with a
\* failure, leaves the loading flag of its component false: isLoading of
\* AiFoodLogger, of WorkoutScreen (generatePlan), of MealIdeaGenerator, of
\* WeeklySummaryGenerator and of ProgressPhotoAnalyzer, and isSubstituting of
\* WorkoutScreen (openSubstituteModal).
C26_CompletionEndsLoading ==
    [][/\ ((\E food \in Foods : addFood(food))
              \/ (\E message \in ErrorMessages : FoodAnalysisFails(message))
            => ~aiFoodLogger'.isLoading)
       /\ ((\E plan \in Plans : GeneratePlanSucceeds(plan))
              \/ (\E message \in ErrorMessages : GeneratePlanFails(message))
            => ~workoutScreen'.isLoading)
       /\ ((\E subs \in Substitutions : SubstitutionSucceeds(subs))
              \/ (\E message \in ErrorMessages : SubstitutionFails(message))
            => ~workoutScreen'.isSubstituting)
       /\ ((\E idea \in Ideas : MealIdeaSucceeds(idea))
              \/ (\E message \in ErrorMessages : MealIdeaFails(message))
            => ~mealIdea'.isLoading)
       /\ ((\E text \in Summaries : WeeklySummarySucceeds(text))
              \/ (\E message \in ErrorMessages : WeeklySummaryFails(message))
            => ~weeklySummary'.isLoading)
       /\ ((\E r \in AnalysisResults : AnalysisSucceeds(r))
              \/ (\E message \in ErrorMessages : AnalysisFails(message))
            => ~photoAnalyzer'.isLoading)]_vars

\* A plan request has failed: its message is shown and the spinner is off.
C26_Witness ==
    /\ page = "workout"
    /\ workoutScreen.error \in ErrorMessages
    /\ ~workoutScreen.isLoading

\* A photo analysis has been answered and the spinner is off.
C26_AnsweredWitness ==
    /\ showPhotoAnalyzer
    /\ analysisResult # NoAnalysis
    /\ ~photoAnalyzer.isLoading

---------------------------------------------------------------------------
(* Accepting a progress-photo analysis.                                    *)

\* The targets the AI may answer with: round numbers, and numbers whose rest
\* carbs and rest calories fall on either side of a rounding tie.
MoreAnalysisResults ==
    AnalysisResults \cup {[protein |-> 150, carbs |-> 200, fat |-> 50, calories |-> 1850],
                          [protein |-> 181, carbs |-> 218, fat |-> 67, calories |-> 2199]}

NextAccept ==
    \/ SignInSucceeds
    \/ DailyEntriesSnapshot
    \/ Reload
    \/ \E p \in {"home", "profile"} : SetPage(p)
    \/ ToggleEditing
    \/ \E field \in DOMAIN EditValues :
         \E value \in EditValues[field] : ProfileChange(field, value)
    \/ ProfileSave
    \/ OpenPhotoAnalyzer
    \/ ClosePhotoAnalyzer
    \/ handleImageChange
    \/ handleAnalysis
    \/ \E r \in MoreAnalysisResults : AnalysisSucceeds(r)
    \/ \E message \in ErrorMessages : AnalysisFails(message)
    \/ AcceptChanges

SpecAccept == InitEntry /\ [][NextAccept]_vars

\* Math.round(x * 0.8) and Math.round(x * 0.9) of a whole number x >= 0.
RoundedFourFifths(x) == (8 * x + 5) \div 10
RoundedNineTenths(x) == (9 * x + 5) \div 10

\* C27: handleAcceptChanges stores, in the profile document and in the profile
\* state, workout goals equal to the four targets of the analysis result, rest
\* goals with the same protein and fat, carbs = round(0.8 * workout carbs) and
\* calories = round(0.9 * workout calories), and lastPhotoUploadDate = the time
\* of the call; every other field of the profile is as before; and without an
\* analysis result the handler does nothing.
C27_AcceptStoresAnalysis ==
    /\ [][AcceptChanges =>
            /\ profileDoc'.goals.workout =
                  [calories |-> analysisResult.calories,
                   protein |-> analysisResult.protein,
                   carbs |-> analysisResult.carbs,
                   fat |-> analysisResult.fat]
            /\ profileDoc'.goals.rest =
                  [calories |-> RoundedNineTenths(analysisResult.calories),
                   protein |-> analysisResult.protein,
                   carbs |-> RoundedFourFifths(analysisResult.carbs),
                   fat |-> analysisResult.fat]
            /\ profileDoc'.lastPhotoUploadDate = <<now>>
            /\ DOMAIN profileDoc' = DOMAIN profileDoc
            /\ \A k \in DOMAIN profileDoc \ {"goals", "lastPhotoUploadDate"} :
                  profileDoc'[k] = profileDoc[k]
            /\ profile' = profileDoc']_vars
    /\ [](analysisResult = NoAnalysis => ~ENABLED AcceptChanges)

\* An analysis whose rest calories are rounded up from a tie (2205 * 0.9 =
\* 1984.5) has been accepted.
C27_Witness ==
    /\ profileDoc # NoProfile
    /\ "calories" \in DOMAIN profileDoc.goals.workout
    /\ profileDoc.goals.workout.calories = 2205
    /\ profileDoc.goals.rest.calories = 1985
    /\ profileDoc.lastPhotoUploadDate # << >>
    /\ profile = profileDoc
    /\ ~showPhotoAnalyzer

---------------------------------------------------------------------------
(* The daily weight prompt.                                                *)

\* The snapshot data holds a weight for today.
HasTodaysWeight(data) == Today \in DOMAIN data /\ "weightLbs" \in DOMAIN data[Today]

\* C28: after every delivery of a daily-entries snapshot to the dashboard the
\* weight prompt is shown exactly when the delivered data has no entry for
\* today or an entry without weightLbs; a shown prompt is hidden, while the
\* data still has no weight for today, only by its own save of a weight above
\* zero; and the delivery of a snapshot with today's weight leaves it hidden.
C28_PromptFollowsTodaysWeight ==
    [][/\ (DailyEntriesSnapshot /\ DashboardRendered'
            => (weightPrompt'.show <=> ~HasTodaysWeight(dailyData')))
       /\ ((weightPrompt.show /\ ~weightPrompt'.show
              /\ DashboardRendered' /\ ~HasTodaysWeight(dailyData'))
            => /\ DailyWeightPromptSave
               /\ IsPositive(NumberOf(weightPrompt.weight))
               /\ HasTodaysWeight(dailyDocs'))
       /\ (DailyEntriesSnapshot /\ HasTodaysWeight(dailyDocs)
            => ~weightPrompt'.show)]_vars

\* The prompt has saved a weight, closed itself, and the snapshot with that
\* weight has been delivered: the prompt is hidden.
C28_Witness ==
    /\ DashboardRendered
    /\ HasTodaysWeight(dailyData)
    /\ "date" \in DOMAIN dailyData[Today]
    /\ ~weightPrompt.show

\* The snapshot without a weight for today has been delivered: the prompt is
\* shown, with a zero typed into it that it does not save.
C28_ShownWitness ==
    /\ DashboardRendered
    /\ ~HasTodaysWeight(dailyData)
    /\ weightPrompt = [show |-> TRUE, weight |-> Numeral(0)]

---------------------------------------------------------------------------
(* The day-type toggle.                                                    *)

\* The day type the stored entry of date d resolves to.
StoredDayType(d) ==
    IF d \in DOMAIN dailyDocs /\ "isWorkoutDay" \in DOMAIN dailyDocs[d]
    THEN dailyDocs[d].isWorkoutDay
    ELSE TRUE

\* C29: a toggle stores, for the selected date, the negation of the day type
\* the dashboard resolves from its snapshot: false (rest) when the entry is
\* absent or has no isWorkoutDay, the opposite of the field otherwise; and after
\* two toggles on a date with the snapshot delivered between them the stored
\* day type is the one that was resolved before the first toggle.
C29_ToggleNegatesDayType ==
    /\ [][handleDayTypeToggle =>
            /\ selectedDate \in DOMAIN dailyDocs'
            /\ "isWorkoutDay" \in DOMAIN dailyDocs'[selectedDate]
            /\ dailyDocs'[selectedDate].isWorkoutDay =
                  (/\ selectedDate \in DOMAIN dailyData
                   /\ "isWorkoutDay" \in DOMAIN dailyData[selectedDate]
                   /\ ~dailyData[selectedDate].isWorkoutDay)]_vars
    /\ [](dayTypeLog.phase = "toggled twice"
            => StoredDayType(dayTypeLog.date) = dayTypeLog.before)

\* Two toggles with the snapshot between them have been made on a date first
\* shown as a workout day, and it is stored as a workout day again.
C29_Witness ==
    /\ dayTypeLog.phase = "toggled twice"
    /\ dayTypeLog.before
    /\ dayTypeLog.date \in DOMAIN dailyDocs
    /\ "isWorkoutDay" \in DOMAIN dailyDocs[dayTypeLog.date]
    /\ dailyDocs[dayTypeLog.date].isWorkoutDay

\* A first toggle on a date without an entry has stored a rest day.
C29_NoEntryWitness ==
    /\ dayTypeLog.phase = "toggled"
    /\ dayTypeLog.date \notin DOMAIN dailyData
    /\ dayTypeLog.date \in DOMAIN dailyDocs
    /\ dailyDocs[dayTypeLog.date] = [isWorkoutDay |-> FALSE]

\* Two toggles with the snapshot between them on a date first shown as a rest
\* day.
C29_RestWitness ==
    /\ dayTypeLog.phase = "toggled twice"
    /\ ~dayTypeLog.before
    /\ ~StoredDayType(dayTypeLog.date)

---------------------------------------------------------------------------
(* Workout set logging.                                                    *)

\* The sets the stored entry of date d holds for an exercise.
StoredSets(docs, d, exerciseName) ==
    IF d \in DOMAIN docs /\ "workoutLog" \in DOMAIN docs[d]
    THEN SetsOf(docs[d].workoutLog, exerciseName)
    ELSE << >>

\* The exercise names a plan or a stored log may hold.
ExerciseNames == {"squat", "bench", "lunge"}

\* C30: handleAddSet writes only when reps and weight of the exercise are both
\* non-empty, and then the exercise's stored list is the list shown with the
\* new set appended; handleDeleteSet stores the list shown without the set at
\* the index; and either call leaves the stored sets of every other exercise as
\* they were, whatever snapshots have or have not been delivered.
C30_SetsOfOtherExercisesKept ==
    [][\A exerciseName \in ExerciseNames :
         /\ handleAddSet(exerciseName) =>
              /\ dailyDocs' # dailyDocs => HasNewSet(exerciseName)
              /\ HasNewSet(exerciseName) =>
                   StoredSets(dailyDocs', selectedDate, exerciseName) =
                      Append(SetsOf(workoutLog, exerciseName),
                             NewSet(workoutScreen.newSetData[exerciseName]))
              /\ \A other \in ExerciseNames \ {exerciseName} :
                   StoredSets(dailyDocs', selectedDate, other) =
                      StoredSets(dailyDocs, selectedDate, other)
         /\ \A i \in 1..MaxSets :
              handleDeleteSet(exerciseName, i) =>
                 /\ StoredSets(dailyDocs', selectedDate, exerciseName) =
                       RemoveAt(SetsOf(workoutLog, exerciseName), i)
                 /\ \A other \in ExerciseNames \ {exerciseName} :
                      StoredSets(dailyDocs', selectedDate, other) =
                         StoredSets(dailyDocs, selectedDate, other)]_vars

=============================================================================
